---- MODULE Spec2Model ----
(***************************************************************************)
(* Model of the vehicle counter of SIMV (src/src/counter.py).              *)
(*                                                                         *)
(* Vertical coordinates are kept DOUBLED: the code computes                *)
(* center_y = (bbox[1] + bbox[3]) / 2 as a Python float, so a centre may   *)
(* be a half pixel.  Every position stored in the model is the integer     *)
(* 2 * center_y = bbox[1] + bbox[3]; comparisons against line_y and        *)
(* zone_margin are scaled accordingly.                                     *)
(*                                                                         *)
(* Python floats are IEEE-754 doubles.  The means computed by              *)
(* _get_direction are correctly rounded quotients, and their difference is *)
(* rounded again; the operators FloatQuotErr / Movement below compute the  *)
(* rounding errors exactly with integers, so that `movement > 20` is       *)
(* decided as the interpreter decides it.                                  *)
(***************************************************************************)
EXTENDS Integers, Naturals, Sequences, FiniteSets, TLC

----------------------------------------------------------------------------
(* Bounds of the model *)

\* longest history handed to _get_direction in SpecDir
MaxDirLen == 6

\* longest per-track position history the counter runs are driven to
MaxHist == 6

\* number of samples SpecCap feeds to each track (beyond the cap of 30)
MaxCapLen == 32

\* largest of the consecutive frame heights SpecConstruct constructs with
MaxHeight == 64

\* number of classifications SpecColor makes for track 7 (beyond the cap of 10)
MaxFeed == 12

\* number of classifications SpecClassify makes
MaxClassify == 3

\* number of update_vehicle calls SpecSpeed makes for track 7
MaxSamples == 3

\* number of vehicle_exited calls SpecExit makes for track 7
MaxExits == 2

\* number of frames SpecHover feeds
MaxHover == 6

\* number of frames SpecZone feeds
MaxZone == 6

\* number of frames of the video SpecRestart processes
MaxShortVideo == 3

\* number of frames SpecMonotone feeds: past the 30-sample cap
MaxMonotone == 34

\* time.time() when the program starts, and how many seconds SpecAlert runs
ClockStart == 100

MaxSeconds == 12

\* how many vehicles of the watched color SpecAlert counts
MaxAlertVehicles == 2

\* number of frames of the video SpecWorker plays
MaxVideo == 20

----------------------------------------------------------------------------
(* Program constants *)

\* counter.py:89-90  cap of a track's position history
HistoryCap == 30

\* counter.py:142  minimum number of samples for a direction
MinSamples == 5

\* counter.py:154,156  movement threshold in pixels
MoveThreshold == 20

\* color_classifier.py:139-140  cap of a track's window of classifications
ColorWindow == 10

\* analytics.py:35  default scale of AdvancedAnalytics, pixels in a meter
PixelsPerMeter == 20

\* analytics.py:166  upper end of the clamp of a speed, km/h
SpeedCeiling == 200

\* analytics.py:171  dwell time above which a vehicle is reported, seconds
LongDwell == 60

\* analytics.py:182  mean speed above which a vehicle is reported, km/h
HighSpeed == 80

\* analytics.py:205  number of speeds get_average_speed averages
SpeedWindow == 50

NoDirection == "None"

\* _disparar_alerta: agora - self.ultimo_alerta_enviado < 10
AlertGap == 10

----------------------------------------------------------------------------
(* IEEE-754 double arithmetic on small rationals *)

RECURSIVE Pow2(_)
Pow2(k) == IF k = 0 THEN 1 ELSE 2 * Pow2(k - 1)

RECURSIVE PowMod2(_, _)
\* 2^k mod M
PowMod2(k, M) ==
    IF k = 0 THEN 1 % M
    ELSE IF k % 2 = 1 THEN (2 * PowMod2(k - 1, M)) % M
    ELSE CHOOSE sq \in {(h * h) % M : h \in {PowMod2(k \div 2, M)}} : TRUE

\* binary exponent e of the positive rational N/D: 2^e <= N/D < 2^(e+1)
BinExp(N, D) ==
    CHOOSE e \in -8..10 : Pow2(e + 8) * D <= N * 256 /\ N * 256 < Pow2(e + 9) * D

\* Rounding error of the double quotient N / D (N >= 0, D > 0), as the
\* integer c * 2^(e+8): fl(N/D) - N/D = FloatQuotErr(N, D) / (D * 2^60).
\* The quotient is rounded to 53 significant bits, to nearest, ties to even.
FloatQuotErr(N, D) ==
    IF N = 0 THEN 0
    ELSE CHOOSE err \in
            {LET R   == t % D
                 odd == t >= D
                 c   == IF 2 * R < D THEN -R
                        ELSE IF 2 * R > D THEN D - R
                        ELSE IF odd THEN D - R ELSE -R
             IN  c * Pow2(e + 8) :
                <<e, t>> \in
                    {<<b, ((N % (2 * D)) * PowMod2(52 - b, 2 * D)) % (2 * D)>> :
                        b \in {BinExp(N, D)}}} : TRUE

\* half an ulp of 20.0 (2^-49) in units of 2^-60
HalfUlp20 == Pow2(11)

RECURSIVE SumSeq(_)
SumSeq(s) == IF s = <<>> THEN 0 ELSE Head(s) + SumSeq(Tail(s))

\* dict.get(key, default) on a record whose fields are the keys present
Get(d, key, default) == IF key \in DOMAIN d THEN d[key] ELSE default

\* the last k elements of s (Python s[-k:])
LastK(s, k) == IF Len(s) <= k THEN s ELSE SubSeq(s, Len(s) - k + 1, Len(s))

\* int(a * (q / 100)) for a frame height a >= 0 and a fraction q/100 >= 0
\* written as a decimal literal.  The literal is the double nearest to
\* q/100, off by FloatQuotErr(q, 100) / (100 * 2^60); the product is rounded
\* to a double again.  When a*q/100 is not an integer the errors are far too
\* small to carry the product across an integer, and int() gives the floor.
\* When it is an integer N, the double product is below N exactly when the
\* error a * FloatQuotErr(q, 100) / (100 * 2^60) lies below minus half the
\* gap between N and the double before it: 2^(e-53) for 2^e < N < 2^(e+1),
\* 2^(e-54) for N = 2^e; int() then gives N - 1.
TruncProduct(a, q) ==
    LET N == (a * q) \div 100
    IN  IF (a * q) % 100 # 0 \/ N = 0 THEN N
        ELSE CHOOSE n \in
                {LET half_gap == IF N = Pow2(e) THEN 100 * Pow2(e + 6)
                                                ELSE 100 * Pow2(e + 7)
                 IN  IF a * FloatQuotErr(q, 100) < -half_gap
                     THEN N - 1 ELSE N : e \in {BinExp(N, 1)}} : TRUE

\* Abs(x)
Abs(x) == IF x < 0 THEN -x ELSE x

\* int(frame_height * line_position): int() truncates toward zero, and the
\* double product of -x and y is minus that of x and y
IntProduct(fh, lp) ==
    IF (fh < 0) # (lp < 0) THEN -TruncProduct(Abs(fh), Abs(lp))
    ELSE TruncProduct(Abs(fh), Abs(lp))

----------------------------------------------------------------------------
(* State *)

VARIABLES
    frame_height,       \* VehicleCounter.frame_height
    line_y,             \* VehicleCounter.line_y
    zone_margin,        \* VehicleCounter.zone_margin
    counted_vehicles,   \* VehicleCounter.counted_vehicles : set of track ids
    position_history,   \* VehicleCounter.position_history : id -> doubled centres
    stats,              \* VehicleCounter.stats : CountingStats
    returned,           \* value returned by the latest update call
    emitted,            \* every (track_id, direction) returned since construction/reset
    call,               \* colors and timestamp of the update call that returned `returned`
    last_op,            \* name of the latest operation
    scn_frame,          \* SpecScenario: frames of the scenario fed so far
    dir_positions,      \* SpecDir: the history handed to _get_direction
    dir_result,         \* SpecDir: what _get_direction returned
    supplied,           \* track id -> every doubled centre handed to update for it
    frame,              \* the tracked_vehicles argument of the latest update call
    snapshot,           \* the dict the latest get_stats call returned, as its holder reads it now
    snapshot_shared,    \* its por_cor / por_tipo values are the counter's own inner dicts
    fresh,              \* a second counter, constructed anew whenever the first is reset
    fresh_emitted,      \* every (track_id, direction) the second counter returned
    reset_after,        \* how many records the first counter held at its latest reset
    ctor,               \* "pending", "constructed" or "rejected": the outcome of VehicleCounter(...)
    ctor_args,          \* the arguments of VehicleCounter(...), line_position in percent
    color_history,      \* ColorClassifier.color_history : track id -> labels
    color_returned,     \* [track_id, label]: the latest classify_with_smoothing call and its result
    color_fed,          \* track id -> every raw classification made for it
    color_call,         \* the frame and bbox of the latest classify_with_smoothing call
    vehicles,           \* AdvancedAnalytics.vehicles : track id -> VehicleMetrics
    total_vehicles,     \* AdvancedAnalytics.total_vehicles
    vehicles_in_scene,  \* AdvancedAnalytics.vehicles_in_scene
    speed_history,      \* AdvancedAnalytics.speed_history
    dwell_times,        \* AdvancedAnalytics.dwell_times, hundredths of a second
    alerts,             \* AdvancedAnalytics.alerts
    exit_log,           \* track id -> vehicle_exited calls made for it since construction/reset
    analytics_call,     \* the arguments of the latest update_vehicle call
    read_result,        \* the latest read operation, its arguments and what it returned
    is_running,         \* SIMVDashboardV2.is_running
    is_paused,          \* SIMVDashboardV2.is_paused
    cap,                \* SIMVDashboardV2.cap: "None", "open" or "released"
    vehicle_colors,     \* SIMVDashboardV2.vehicle_colors
    worker_pc,          \* where the thread running _process_video is
    ui_pc,              \* where the UI thread is in _stop_processing
    frame_count,        \* frame_count of _process_video
    cap_pos,            \* how many frames the capture has delivered
    processed,          \* the frame_count of every frame whose update was completed
    idling,             \* the latest pause check of the worker found is_paused set
    idled_at,           \* frame_count at the latest such check, -1 before the first
    error_shown,        \* the except clause of _process_video has scheduled the error box
    clock,              \* time.time(), in seconds
    cor_alerta,         \* SIMVDashboardV2.cor_alerta, "None" when no color is watched
    alert_requests,     \* the _disparar_alerta calls root.after has queued for the UI thread
    ultimo_alerta_enviado, \* SIMVDashboardV2.ultimo_alerta_enviado
    alert_log,          \* every alert dispatched: log entry, Telegram thread and flash
    worker2_pc,         \* where the thread of a second _start_processing is, "none" before it
    frame_count2,       \* frame_count of that thread's _process_video
    video_frames        \* how many frames the video at self.video_path has

\* the variables that record what the callers handed in
log_vars == <<supplied, frame>>

\* the value a caller of get_stats holds
snap_vars == <<snapshot, snapshot_shared>>

\* the second counter
twin_vars == <<fresh, fresh_emitted, reset_after>>

\* the constructor call
ctor_vars == <<ctor, ctor_args>>

\* ColorClassifier and what its callers see
color_vars == <<color_history, color_returned, color_fed, color_call>>

\* AdvancedAnalytics and the arguments of its latest call
analytics_vars == <<vehicles, total_vehicles, vehicles_in_scene, speed_history,
                    dwell_times, alerts, exit_log, analytics_call>>

\* the objects next to the counter
\* the dashboard and the thread that processes the video
worker_vars == <<is_running, is_paused, cap, vehicle_colors, worker_pc, ui_pc,
                 frame_count, cap_pos, processed, idling, idled_at, error_shown>>

\* the color alert of the dashboard
alert_vars == <<clock, cor_alerta, alert_requests, ultimo_alerta_enviado,
                alert_log>>

\* the thread of a second start
restart_vars == <<worker2_pc, frame_count2>>

\* the video file
video_vars == <<video_frames>>

rest_vars == <<color_vars, analytics_vars, read_result, worker_vars,
               alert_vars, restart_vars, video_vars>>

aux_vars == <<log_vars, snap_vars, twin_vars, ctor_vars, rest_vars>>

vars == <<frame_height, line_y, zone_margin, counted_vehicles, position_history,
          stats, returned, emitted, call, last_op, scn_frame, dir_positions,
          dir_result, aux_vars>>

counter_vars == <<frame_height, line_y, zone_margin, counted_vehicles,
                  position_history, stats, returned, emitted, call, last_op>>

dir_vars == <<dir_positions, dir_result>>

probe_vars == <<scn_frame, dir_positions, dir_result>>

\* everything but the ColorClassifier
beside_color == <<counter_vars, probe_vars, log_vars, snap_vars, twin_vars,
                  ctor_vars, analytics_vars, read_result, worker_vars,
                  alert_vars, restart_vars, video_vars>>

\* everything but AdvancedAnalytics
beside_analytics == <<counter_vars, probe_vars, log_vars, snap_vars, twin_vars,
                      ctor_vars, color_vars, read_result, worker_vars,
                      alert_vars, restart_vars, video_vars>>

\* everything but AdvancedAnalytics and the latest read
beside_engine == <<counter_vars, probe_vars, log_vars, snap_vars, twin_vars,
                   ctor_vars, color_vars, worker_vars, alert_vars,
                   restart_vars, video_vars>>

\* everything but the counter and the latest read
beside_counter == <<probe_vars, log_vars, snap_vars, twin_vars, ctor_vars,
                    color_vars, analytics_vars, worker_vars, alert_vars,
                    restart_vars, video_vars>>

\* what no step of the first processing thread and of the buttons touches
beside_dashboard == <<probe_vars, log_vars, snap_vars, twin_vars, ctor_vars,
                      read_result, alert_vars, restart_vars, video_vars>>

----------------------------------------------------------------------------
(* VehicleCounter *)

\* the defaultdict factory of por_cor / por_tipo
ZeroCell == [entrada |-> 0, saida |-> 0]

\* CountingStats() : the dataclass defaults
CountingStats ==
    [total_entrada |-> 0, total_saida |-> 0,
     por_cor |-> <<>>, por_tipo |-> <<>>, registros |-> <<>>]

\* VehicleRecord(...)
VehicleRecord(track_id, direction, color, vehicle_type, timestamp) ==
    [track_id |-> track_id, direction |-> direction, color |-> color,
     vehicle_type |-> vehicle_type, timestamp |-> timestamp]

\* defaultdict access d[key]: the stored value, or the factory's value
DefaultGet(d, key, default) == IF key \in DOMAIN d THEN d[key] ELSE default

\* d[key] = value on a dict
DictSet(d, key, value) == [k \in DOMAIN d \cup {key} |-> IF k = key THEN value ELSE d[k]]

\* BumpCell with = 1 in place of += 1
BumpCellAssign(d, key, direction) ==
    DictSet(d, key, [DefaultGet(d, key, ZeroCell) EXCEPT ![direction] = 1])

\* self.stats.por_cor[color][direction] += 1 (and the same for por_tipo)
BumpCell(d, key, direction) ==
    DictSet(d, key, [DefaultGet(d, key, ZeroCell) EXCEPT ![direction] = @ + 1])

\* The two means of _get_direction, avg_start = sum(start)/len(start) and
\* avg_end = sum(end)/len(end), are doubles; with the doubled positions
\*   avg_end - avg_start = MovementNum/MovementDen                (exactly)
\*                         + MovementErr/(MovementDen * 2^60)     (rounding)
\* before the subtraction itself is rounded.
MovementNum(start_positions, end_positions) ==
    SumSeq(end_positions) * 2 * Len(start_positions)
        - SumSeq(start_positions) * 2 * Len(end_positions)

MovementDen(start_positions, end_positions) ==
    4 * Len(start_positions) * Len(end_positions)

MovementErr(start_positions, end_positions) ==
    FloatQuotErr(SumSeq(end_positions), 2 * Len(end_positions))
            * 2 * Len(start_positions)
        - FloatQuotErr(SumSeq(start_positions), 2 * Len(start_positions))
            * 2 * Len(end_positions)

\* MovementAbove with >= for >
MovementAboveInclusive(num, den, start_positions, end_positions) ==
    num >= MoveThreshold * den

\* movement > 20: the subtraction rounds to nearest (ties to even), so the
\* double exceeds 20 exactly when the unrounded difference exceeds 20 by more
\* than half an ulp.  When the exact means differ from 20 at all they differ
\* by at least 1/MovementDen, far above the rounding errors, and the exact
\* comparison decides.
MovementAbove(num, den, start_positions, end_positions) ==
    IF num # MoveThreshold * den THEN num > MoveThreshold * den
    ELSE MovementErr(start_positions, end_positions) > HalfUlp20 * den

\* MovementBelow without the sign of the threshold (movement < 20)
MovementBelowPositive(num, den, start_positions, end_positions) ==
    num < MoveThreshold * den

\* movement < -20, likewise
MovementBelow(num, den, start_positions, end_positions) ==
    IF num # -(MoveThreshold * den) THEN num < -(MoveThreshold * den)
    ELSE MovementErr(start_positions, end_positions) < -(HalfUlp20 * den)

\* DirectionOfHalves with the two directions exchanged
DirectionOfHalvesSwapped(num, den, start_positions, end_positions) ==
    IF MovementAbove(num, den, start_positions, end_positions) THEN "saida"
    ELSE IF MovementBelow(num, den, start_positions, end_positions) THEN "entrada"
    ELSE NoDirection

\* _get_direction, lines 149-159, on the two halves
DirectionOfHalves(num, den, start_positions, end_positions) ==
    IF MovementAbove(num, den, start_positions, end_positions) THEN "entrada"
    ELSE IF MovementBelow(num, den, start_positions, end_positions) THEN "saida"
    ELSE NoDirection

\* positions[:len(positions)//2] and positions[len(positions)//2:]
SplitDirection(start_positions, end_positions) ==
    DirectionOfHalves(MovementNum(start_positions, end_positions),
                      MovementDen(start_positions, end_positions),
                      start_positions, end_positions)

\* GetDirection with the first half one sample longer for odd lengths
\* (positions[:(len(positions)+1)//2])
GetDirectionCeilSplit(positions) ==
    IF Len(positions) < MinSamples THEN NoDirection
    ELSE SplitDirection(SubSeq(positions, 1, (Len(positions) + 1) \div 2),
                        SubSeq(positions, (Len(positions) + 1) \div 2 + 1,
                               Len(positions)))

\* _get_direction, on the history it reads
GetDirection(positions) ==
    IF Len(positions) < MinSamples THEN NoDirection
    ELSE SplitDirection(SubSeq(positions, 1, Len(positions) \div 2),
                        SubSeq(positions, Len(positions) \div 2 + 1, Len(positions)))

\* _get_direction(track_id): positions = self.position_history.get(track_id, [])
_get_direction(history, track_id) == GetDirection(Get(history, track_id, <<>>))

\* _crossed_line with <= in place of <
_crossed_line_inclusive(track_id, current_y2) ==
    LET d == current_y2 - 2 * line_y
    IN  (IF d < 0 THEN -d ELSE d) <= 2 * zone_margin

\* _crossed_line with the lower edge of the band included
_crossed_line_half_open(track_id, current_y2) ==
    LET d == current_y2 - 2 * line_y
    IN  d >= -(2 * zone_margin) /\ d < 2 * zone_margin

\* _crossed_line(track_id, current_y): abs(current_y - line_y) < zone_margin,
\* on the doubled centre
_crossed_line(track_id, current_y2) ==
    LET d == current_y2 - 2 * line_y
    IN  (IF d < 0 THEN -d ELSE d) < 2 * zone_margin

\* AppendPosition keeping the first 30 positions (history[:30])
AppendPositionHeadCap(history, track_id, center_y2) ==
    LET appended == Append(DefaultGet(history, track_id, <<>>), center_y2)
    IN  DictSet(history, track_id,
                IF Len(appended) > HistoryCap
                THEN SubSeq(appended, 1, HistoryCap) ELSE appended)

\* update, lines 86-90: append center_y to the track's history and keep the
\* last 30 positions
AppendPosition(history, track_id, center_y2) ==
    LET appended == Append(DefaultGet(history, track_id, <<>>), center_y2)
    IN  DictSet(history, track_id,
                IF Len(appended) > HistoryCap
                THEN LastK(appended, HistoryCap) ELSE appended)

\* CountVehicle without self.counted_vehicles.add(track_id)
CountVehicleNoMark(c, track_id, direction, color, vehicle_type, timestamp) ==
    [counted_vehicles |-> c.counted_vehicles,
     position_history |-> c.position_history,
     stats |->
        [total_entrada |-> IF direction = "entrada"
                           THEN c.stats.total_entrada + 1
                           ELSE c.stats.total_entrada,
         total_saida   |-> IF direction = "entrada"
                           THEN c.stats.total_saida
                           ELSE c.stats.total_saida + 1,
         por_cor   |-> BumpCell(c.stats.por_cor, color, direction),
         por_tipo  |-> BumpCell(c.stats.por_tipo, vehicle_type, direction),
         registros |-> Append(c.stats.registros,
                              VehicleRecord(track_id, direction, color,
                                            vehicle_type, timestamp))],
     newly_counted |-> Append(c.newly_counted, <<track_id, direction>>)]

\* CountVehicle with `total_saida += 1` outside the else branch
CountVehicleDedent(c, track_id, direction, color, vehicle_type, timestamp) ==
    [counted_vehicles |-> c.counted_vehicles \cup {track_id},
     position_history |-> c.position_history,
     stats |->
        [total_entrada |-> IF direction = "entrada"
                           THEN c.stats.total_entrada + 1
                           ELSE c.stats.total_entrada,
         total_saida   |-> c.stats.total_saida + 1,
         por_cor   |-> BumpCell(c.stats.por_cor, color, direction),
         por_tipo  |-> BumpCell(c.stats.por_tipo, vehicle_type, direction),
         registros |-> Append(c.stats.registros,
                              VehicleRecord(track_id, direction, color,
                                            vehicle_type, timestamp))],
     newly_counted |-> Append(c.newly_counted, <<track_id, direction>>)]

\* update, lines 101-125: register the count of track_id
CountVehicle(c, track_id, direction, color, vehicle_type, timestamp) ==
    [counted_vehicles |-> c.counted_vehicles \cup {track_id},
     position_history |-> c.position_history,
     stats |->
        [total_entrada |-> IF direction = "entrada"
                           THEN c.stats.total_entrada + 1
                           ELSE c.stats.total_entrada,
         total_saida   |-> IF direction = "entrada"
                           THEN c.stats.total_saida
                           ELSE c.stats.total_saida + 1,
         por_cor   |-> BumpCell(c.stats.por_cor, color, direction),
         por_tipo  |-> BumpCell(c.stats.por_tipo, vehicle_type, direction),
         registros |-> Append(c.stats.registros,
                              VehicleRecord(track_id, direction, color,
                                            vehicle_type, timestamp))],
     newly_counted |-> Append(c.newly_counted, <<track_id, direction>>)]

\* CountIfDirection without the `if direction:` test: an undetermined
\* direction falls into the else branch of the totals
CountIfDirectionAlways(c, vehicle, colors, timestamp, track_id, direction) ==
    CountVehicle(c, track_id,
                 IF direction = NoDirection THEN "saida" ELSE direction,
                 Get(colors, track_id, "indefinido"),
                 Get(vehicle, "class_name", "car"),
                 timestamp)

\* CountIfDirection whose colors lookup never finds the track
CountIfDirectionNoColor(c, vehicle, colors, timestamp, track_id, direction) ==
    IF direction = NoDirection THEN c
    ELSE CountVehicle(c, track_id, direction,
                      "indefinido",
                      Get(vehicle, "class_name", "car"),
                      timestamp)

\* update, lines 100-125: `if direction:` and the count
CountIfDirection(c, vehicle, colors, timestamp, track_id, direction) ==
    IF direction = NoDirection THEN c
    ELSE CountVehicle(c, track_id, direction,
                      Get(colors, track_id, "indefinido"),
                      Get(vehicle, "class_name", "car"),
                      timestamp)

\* UpdateTracked without `if track_id in self.counted_vehicles: continue`
UpdateTrackedNoCountedCheck(c, vehicle, colors, timestamp, track_id, center_y2) ==
    IF ~ _crossed_line(track_id, center_y2) THEN c
    ELSE CountIfDirection(c, vehicle, colors, timestamp, track_id,
                          _get_direction(c.position_history, track_id))

\* update, lines 92-125, for a box with a valid track id whose centre has
\* been appended to the history (c holds the appended history)
UpdateTracked(c, vehicle, colors, timestamp, track_id, center_y2) ==
    IF track_id \in c.counted_vehicles THEN c
    ELSE IF ~ _crossed_line(track_id, center_y2) THEN c
    ELSE CountIfDirection(c, vehicle, colors, timestamp, track_id,
                          _get_direction(c.position_history, track_id))

\* update, lines 82-90, for a box with a valid track id
UpdateValid(c, vehicle, colors, timestamp, track_id, center_y2) ==
    UpdateTracked([c EXCEPT !.position_history =
                                AppendPosition(@, track_id, center_y2)],
                  vehicle, colors, timestamp, track_id, center_y2)

\* UpdateVehicle with vehicle.get('track_id', 0): a box without a track_id
\* key is taken for track 0
UpdateVehicleDefaultZero(c, vehicle, colors, timestamp) ==
    IF Get(vehicle, "track_id", 0) < 0 THEN c
    ELSE UpdateValid(c, vehicle, colors, timestamp,
                     Get(vehicle, "track_id", 0),
                     vehicle.bbox[2] + vehicle.bbox[4])

\* one iteration of update's loop `for vehicle in tracked_vehicles`, on the
\* counter fields c and the list newly_counted it carries
UpdateVehicle(c, vehicle, colors, timestamp) ==
    IF Get(vehicle, "track_id", -1) < 0 THEN c
    ELSE UpdateValid(c, vehicle, colors, timestamp,
                     Get(vehicle, "track_id", -1),
                     vehicle.bbox[2] + vehicle.bbox[4])

RECURSIVE UpdateLoop(_, _, _, _)
\* the whole loop of update over tracked_vehicles
UpdateLoop(c, tracked_vehicles, colors, timestamp) ==
    IF tracked_vehicles = <<>> THEN c
    ELSE CHOOSE out \in
            {UpdateLoop(next, Tail(tracked_vehicles), colors, timestamp) :
                next \in {UpdateVehicle(c, Head(tracked_vehicles), colors,
                                        timestamp)}} : TRUE

\* the dict get_stats builds from a CountingStats
get_stats_of(st) ==
    [total_entrada |-> st.total_entrada,
     total_saida   |-> st.total_saida,
     total_geral   |-> st.total_entrada + st.total_saida,
     por_cor       |-> st.por_cor,
     por_tipo      |-> st.por_tipo,
     registros     |-> Len(st.registros)]

\* get_stats()
get_stats == get_stats_of(stats)

\* get_color_distribution(), from a CountingStats
get_color_distribution(st) ==
    [color \in DOMAIN st.por_cor |->
        st.por_cor[color].entrada + st.por_cor[color].saida]

----------------------------------------------------------------------------
(* ColorClassifier *)

\* COLOR_RANGES, in the order of the dict: name and (H_min, H_max, S_min,
\* S_max, V_min, V_max) ranges
COLOR_RANGES ==
    << <<"vermelho", {<<0, 10, 70, 255, 50, 255>>, <<170, 180, 70, 255, 50, 255>>}>>,
       <<"laranja",  {<<10, 25, 70, 255, 50, 255>>}>>,
       <<"amarelo",  {<<25, 35, 70, 255, 50, 255>>}>>,
       <<"verde",    {<<35, 85, 70, 255, 50, 255>>}>>,
       <<"azul",     {<<85, 130, 70, 255, 50, 255>>}>>,
       <<"roxo",     {<<130, 160, 70, 255, 50, 255>>}>>,
       <<"rosa",     {<<160, 170, 70, 255, 50, 255>>}>>,
       <<"branco",   {<<0, 180, 0, 30, 200, 255>>}>>,
       <<"preto",    {<<0, 180, 0, 255, 0, 50>>}>>,
       <<"cinza",    {<<0, 180, 0, 30, 50, 200>>}>>,
       <<"prata",    {<<0, 180, 0, 40, 150, 220>>}>> >>

\* int(c) of a coordinate given in half pixels: truncation toward zero
IntOfHalves(c2) == IF c2 < 0 THEN -((-c2) \div 2) ELSE c2 \div 2

Min(a, b) == IF a < b THEN a ELSE b

Max(a, b) == IF a > b THEN a ELSE b

\* cv2.inRange on one HSV pixel: both ends inclusive
InRange(hsv, r) ==
    /\ r[1] <= hsv[1] /\ hsv[1] <= r[2]
    /\ r[3] <= hsv[2] /\ hsv[2] <= r[4]
    /\ r[5] <= hsv[3] /\ hsv[3] <= r[6]

\* color_counts[color_name] on a region of total_pixels pixels that all have
\* the HSV value hsv: all of them, or none
ColorCount(k, hsv, total_pixels) ==
    IF \E r \in COLOR_RANGES[k][2] : InRange(hsv, r) THEN total_pixels ELSE 0

\* max(color_counts.items(), key=lambda x: x[1]): the first item, in the
\* order of the dict, with the largest count
MaxColor(hsv, total_pixels) ==
    CHOOSE k \in 1..Len(COLOR_RANGES) :
        /\ \A j \in 1..Len(COLOR_RANGES) :
              ColorCount(j, hsv, total_pixels) <= ColorCount(k, hsv, total_pixels)
        /\ \A j \in 1..(k - 1) :
              ColorCount(j, hsv, total_pixels) < ColorCount(k, hsv, total_pixels)

\* classify, lines 111-117: the predominant color, if it covers more than
\* 10% of the pixels
Predominant(max_color, hsv, total_pixels) ==
    IF 10 * ColorCount(max_color, hsv, total_pixels) > total_pixels
    THEN COLOR_RANGES[max_color][1]
    ELSE "indefinido"

\* classify, lines 92-117, on total_pixels pixels of the HSV value hsv
ClassifyPixels(hsv, total_pixels) ==
    Predominant(MaxColor(hsv, total_pixels), hsv, total_pixels)

\* center_roi.size, or vehicle_roi.size when the central cut is empty
\* (lines 87-90), in pixels
CenterPixels(h, w, rows, cols) == IF rows * cols = 0 THEN h * w ELSE rows * cols

\* classify, lines 82-117, on a region of h rows and w columns (h, w > 0) of
\* a frame whose pixels all have the HSV value hsv: the central cut leaves
\* out int(h * 0.2) rows and int(w * 0.15) columns on each side
ClassifyRegion(h, w, hsv) ==
    CHOOSE label \in
        {ClassifyPixels(hsv, total_pixels) :
            total_pixels \in
                {CenterPixels(h, w,
                              Max(0, h - 2 * TruncProduct(h, 20)),
                              Max(0, w - 2 * TruncProduct(w, 15)))}} : TRUE

\* classify without its two early returns (lines 73-74 and 79-80): the
\* empty region reaches cv2.cvtColor, which raises
classify_unguarded(image, bbox2) ==
    LET x1 == Max(0, IntOfHalves(bbox2[1]))
        y1 == Max(0, IntOfHalves(bbox2[2]))
        x2 == Min(image.width, IntOfHalves(bbox2[3]))
        y2 == Min(image.height, IntOfHalves(bbox2[4]))
    IN  IF x2 <= x1 \/ y2 <= y1 THEN "cv2.error"
        ELSE ClassifyRegion(y2 - y1, x2 - x1, image.hsv)

\* classify(frame, bbox): frame is an image of image.height rows and
\* image.width columns (frame.shape[0], frame.shape[1]) whose pixels all
\* convert to the HSV value image.hsv; bbox2 holds the four coordinates in
\* half pixels.  After the clipping 0 <= x1 < x2 <= width and
\* 0 <= y1 < y2 <= height, so frame[y1:y2, x1:x2] is never empty.
classify(image, bbox2) ==
    LET x1 == Max(0, IntOfHalves(bbox2[1]))
        y1 == Max(0, IntOfHalves(bbox2[2]))
        x2 == Min(image.width, IntOfHalves(bbox2[3]))
        y2 == Min(image.height, IntOfHalves(bbox2[4]))
    IN  IF x2 <= x1 \/ y2 <= y1 THEN "indefinido"
        ELSE ClassifyRegion(y2 - y1, x2 - x1, image.hsv)

\* how often a label occurs in a window
Occurrences(window, label) ==
    Cardinality({i \in 1..Len(window) : window[i] = label})

\* where a label first occurs in a window
FirstAt(window, label) ==
    CHOOSE i \in 1..Len(window) :
        window[i] = label /\ \A j \in 1..(i - 1) : window[j] # label

\* where a label occurs for the n-th time in a window
ReachedAt(window, label, n) ==
    CHOOSE i \in 1..Len(window) :
        /\ window[i] = label
        /\ Cardinality({j \in 1..i : window[j] = label}) = n

\* MostCommon returning, among the labels with the largest count, the one
\* whose running count reaches that count first
MostCommonFirstToReach(window) ==
    CHOOSE label \in {window[i] : i \in 1..Len(window)} :
        \A other \in {window[i] : i \in 1..Len(window)} \ {label} :
            \/ Occurrences(window, other) < Occurrences(window, label)
            \/ /\ Occurrences(window, other) = Occurrences(window, label)
               /\ ReachedAt(window, label, Occurrences(window, label))
                    < ReachedAt(window, other, Occurrences(window, other))

\* MostCommon returning the label appended last
MostCommonLatest(window) == window[Len(window)]

\* Counter(window).most_common(1)[0][0] on a non-empty window: a Counter
\* keeps its keys in the order they first occur, and most_common(1) takes
\* the first of the keys with the largest count
MostCommon(window) ==
    CHOOSE label \in {window[i] : i \in 1..Len(window)} :
        \A other \in {window[i] : i \in 1..Len(window)} \ {label} :
            \/ Occurrences(window, other) < Occurrences(window, label)
            \/ /\ Occurrences(window, other) = Occurrences(window, label)
               /\ FirstAt(window, label) < FirstAt(window, other)

\* SmoothedWindow keeping the first 10 labels
SmoothedWindowHead(history, track_id, current_color) ==
    LET appended == Append(Get(history, track_id, <<>>), current_color)
    IN  IF Len(appended) > ColorWindow
        THEN SubSeq(appended, 1, ColorWindow) ELSE appended

\* classify_with_smoothing, lines 133-140: the track's window after
\* current_color is appended and the last 10 labels are kept
SmoothedWindow(history, track_id, current_color) ==
    LET appended == Append(Get(history, track_id, <<>>), current_color)
    IN  IF Len(appended) > ColorWindow
        THEN LastK(appended, ColorWindow) ELSE appended

\* classify_with_smoothing, lines 133-146: the new color_history, the label
\* returned, and the raw classification that was appended
SmoothWith(history, track_id, current_color, window) ==
    [color_history |-> DictSet(history, track_id, window),
     most_common |-> MostCommon(window),
     current_color |-> current_color]

\* classify_with_smoothing, lines 131-140
SmoothCurrent(history, track_id, current_color) ==
    CHOOSE r \in
        {SmoothWith(history, track_id, current_color, window) :
            window \in {SmoothedWindow(history, track_id, current_color)}} :
        TRUE

\* classify_with_smoothing(track_id, frame, bbox)
classify_with_smoothing(history, track_id, image, bbox2) ==
    CHOOSE r \in
        {SmoothCurrent(history, track_id, current_color) :
            current_color \in {classify(image, bbox2)}} : TRUE

----------------------------------------------------------------------------
(* AdvancedAnalytics *)

(* Timestamps are kept in hundredths of a second and positions DOUBLED, as *)
(* in the counter: center_x = (bbox[0] + bbox[2]) / 2 is stored as          *)
(* bbox[0] + bbox[2].  A speed is a Python number of km/h; the model keeps  *)
(* it as the fraction num / den, so that 0 and the clamp's own 200 are      *)
(* [num |-> 0, den |-> 1] and [num |-> 200, den |-> 1].  The double the     *)
(* interpreter computes differs from the fraction by rounding only, which   *)
(* decides no comparison with 0 or 200 for the displacements of the runs    *)
(* (10, 490 and 500 km/h).                                                  *)

\* a speed of k km/h, k an integer
Kmh(k) == [num |-> k, den |-> 1]

\* a > b for two speeds with positive denominators
Faster(a, b) == a.num * b.den > b.num * a.den

\* np.sqrt(dx**2 + dy**2) on doubled coordinates: the doubled distance.  The
\* displacements of the runs have whole lengths, which np.sqrt returns exactly.
Hypot(dx, dy) ==
    CHOOSE r \in Max(Abs(dx), Abs(dy))..(Abs(dx) + Abs(dy)) :
        r * r = dx * dx + dy * dy

\* distance_pixels / pixels_per_meter / dt * 3.6 with the distance doubled
\* and dt in hundredths of a second
SpeedKmh(distance2, dt) ==
    [num |-> 36 * 100 * distance2, den |-> 10 * 2 * PixelsPerMeter * dt]

\* the same computation returning speed_kmh as computed
_calculate_speed_unclamped(pos1, pos2) ==
    LET dt == pos2[3] - pos1[3]
    IN  IF dt <= 0
        THEN Kmh(0)
        ELSE SpeedKmh(Hypot(pos2[1] - pos1[1], pos2[2] - pos1[2]), dt)

\* _calculate_speed(pos1, pos2): 0 when dt <= 0, else
\* min(max(speed_kmh, 0), 200)
_calculate_speed(pos1, pos2) ==
    LET dt == pos2[3] - pos1[3]
    IN  IF dt <= 0
        THEN Kmh(0)
        ELSE LET speed_kmh == SpeedKmh(Hypot(pos2[1] - pos1[1],
                                             pos2[2] - pos1[2]), dt)
                 floored == IF Faster(Kmh(0), speed_kmh) THEN Kmh(0)
                            ELSE speed_kmh
             IN  IF Faster(floored, Kmh(SpeedCeiling)) THEN Kmh(SpeedCeiling)
                 ELSE floored

\* VehicleMetrics(track_id=..., entry_time=..., entry_position=...)
VehicleMetrics(track_id, entry_time, entry_position) ==
    [track_id |-> track_id, entry_time |-> entry_time, exit_time |-> 0,
     entry_position |-> entry_position, exit_position |-> <<0, 0>>,
     positions |-> <<>>, color |-> "indefinido", vehicle_type |-> "car",
     speed_estimates |-> <<>>, direction |-> "", counted |-> FALSE]

\* the vehicle after positions.append and the color / type assignments
Sighted(vehicle, center, timestamp, color, vehicle_type) ==
    [vehicle EXCEPT
        !.positions = Append(@, <<center[1], center[2], timestamp>>),
        !.color = IF color \notin {"None", ""} THEN color ELSE @,
        !.vehicle_type = IF vehicle_type \notin {"None", ""}
                         THEN vehicle_type ELSE @]

\* the speed of the last two samples, or 0 when the vehicle has one sample
LastSpeed(vehicle) ==
    IF Len(vehicle.positions) >= 2
    THEN _calculate_speed(vehicle.positions[Len(vehicle.positions) - 1],
                          vehicle.positions[Len(vehicle.positions)])
    ELSE Kmh(0)

\* update_vehicle without the `if speed > 0` guard of the two appends
update_vehicle_append_always(track_id, bbox, timestamp, color, vehicle_type) ==
    LET center == <<bbox[1] + bbox[3], bbox[2] + bbox[4]>>
        known == track_id \in DOMAIN vehicles
        before == IF known THEN vehicles[track_id]
                  ELSE VehicleMetrics(track_id, timestamp, center)
        vehicle == Sighted(before, center, timestamp, color, vehicle_type)
        speed == LastSpeed(vehicle)
        stored == Len(vehicle.positions) >= 2
        after == IF stored
                 THEN [vehicle EXCEPT !.speed_estimates = Append(@, speed)]
                 ELSE vehicle
    IN  /\ vehicles' = (track_id :> after) @@ vehicles
        /\ total_vehicles' = IF known THEN total_vehicles
                             ELSE total_vehicles + 1
        /\ vehicles_in_scene' = IF known THEN vehicles_in_scene
                                ELSE vehicles_in_scene + 1
        /\ speed_history' = IF stored THEN Append(speed_history, speed)
                            ELSE speed_history
        /\ UNCHANGED <<dwell_times, alerts>>

\* update_vehicle(track_id, bbox, timestamp, color, vehicle_type)
update_vehicle(track_id, bbox, timestamp, color, vehicle_type) ==
    LET center == <<bbox[1] + bbox[3], bbox[2] + bbox[4]>>
        known == track_id \in DOMAIN vehicles
        before == IF known THEN vehicles[track_id]
                  ELSE VehicleMetrics(track_id, timestamp, center)
        vehicle == Sighted(before, center, timestamp, color, vehicle_type)
        speed == LastSpeed(vehicle)
        stored == Faster(speed, Kmh(0))
        after == IF stored
                 THEN [vehicle EXCEPT !.speed_estimates = Append(@, speed)]
                 ELSE vehicle
    IN  /\ vehicles' = (track_id :> after) @@ vehicles
        /\ total_vehicles' = IF known THEN total_vehicles
                             ELSE total_vehicles + 1
        /\ vehicles_in_scene' = IF known THEN vehicles_in_scene
                                ELSE vehicles_in_scene + 1
        /\ speed_history' = IF stored THEN Append(speed_history, speed)
                            ELSE speed_history
        /\ UNCHANGED <<dwell_times, alerts>>

RECURSIVE GCD(_, _)
GCD(a, b) == IF b = 0 THEN a ELSE GCD(b, a % b)

\* the same speed in lowest terms
Lowest(speed) ==
    LET g == GCD(speed.num, speed.den)
    IN  [num |-> speed.num \div g, den |-> speed.den \div g]

\* a + b for two speeds
Plus(a, b) ==
    LET x == Lowest(a)
        y == Lowest(b)
    IN  Lowest([num |-> x.num * y.den + y.num * x.den, den |-> x.den * y.den])

RECURSIVE SumSpeeds(_)
SumSpeeds(speeds) ==
    IF speeds = <<>> THEN Kmh(0)
    ELSE Plus(Head(speeds), SumSpeeds(Tail(speeds)))

\* np.mean of a non-empty list of speeds
Mean(speeds) ==
    LET total == SumSpeeds(speeds)
    IN  Lowest([num |-> total.num, den |-> total.den * Len(speeds)])

\* an entry of alerts; its message and its wall-clock timestamp are left out
Alert(type, track_id, severity) ==
    [type |-> type, track_id |-> track_id, severity |-> severity]

\* the first test of _check_alerts with >= for >
LongDwellAlertsInclusive(vehicle, dwell_time) ==
    IF dwell_time >= LongDwell * 100
    THEN <<Alert("PERMANENCIA_LONGA", vehicle.track_id, "warning")>>
    ELSE <<>>

\* _check_alerts, first test: what a dwell_time in hundredths of a second
\* appends
LongDwellAlerts(vehicle, dwell_time) ==
    IF dwell_time > LongDwell * 100
    THEN <<Alert("PERMANENCIA_LONGA", vehicle.track_id, "warning")>>
    ELSE <<>>

\* _check_alerts, second test: what the speed samples append
HighSpeedAlerts(vehicle) ==
    IF vehicle.speed_estimates # <<>>
       /\ Faster(Mean(vehicle.speed_estimates), Kmh(HighSpeed))
    THEN <<Alert("ALTA_VELOCIDADE", vehicle.track_id, "danger")>>
    ELSE <<>>

\* _check_alerts with the second test under an elif of the first
_check_alerts_elif(list, vehicle, dwell_time) ==
    IF LongDwellAlerts(vehicle, dwell_time) # <<>>
    THEN list \o LongDwellAlerts(vehicle, dwell_time)
    ELSE list \o HighSpeedAlerts(vehicle)

\* _check_alerts(vehicle, dwell_time): the alerts list afterwards
_check_alerts(list, vehicle, dwell_time) ==
    list \o LongDwellAlerts(vehicle, dwell_time) \o HighSpeedAlerts(vehicle)

\* the record of a track after the assignments of vehicle_exited
Exited(vehicle, timestamp, direction) ==
    [vehicle EXCEPT
        !.exit_time = timestamp,
        !.direction = direction,
        !.counted = TRUE,
        !.exit_position =
            IF vehicle.positions # <<>>
            THEN <<vehicle.positions[Len(vehicle.positions)][1],
                   vehicle.positions[Len(vehicle.positions)][2]>>
            ELSE @]

\* vehicle_exited without the membership test, an absent track counting as
\* one that entered at 0 with no sample
vehicle_exited_unguarded(track_id, timestamp, direction) ==
    LET vehicle == Get(vehicles, track_id, VehicleMetrics(track_id, 0, <<0, 0>>))
        dwell_time == timestamp - vehicle.entry_time
    IN  /\ vehicles' = (track_id :> Exited(vehicle, timestamp, direction))
                        @@ vehicles
        /\ dwell_times' = Append(dwell_times, dwell_time)
        /\ vehicles_in_scene' = Max(0, vehicles_in_scene - 1)
        /\ alerts' = _check_alerts(alerts, vehicle, dwell_time)
        /\ UNCHANGED <<total_vehicles, speed_history>>

\* vehicle_exited(track_id, timestamp, direction)
vehicle_exited(track_id, timestamp, direction) ==
    IF track_id \in DOMAIN vehicles
    THEN LET vehicle == vehicles[track_id]
             dwell_time == timestamp - vehicle.entry_time
         IN  /\ vehicles' = (track_id :> Exited(vehicle, timestamp, direction))
                             @@ vehicles
             /\ dwell_times' = Append(dwell_times, dwell_time)
             /\ vehicles_in_scene' = Max(0, vehicles_in_scene - 1)
             /\ alerts' = _check_alerts(alerts, vehicle, dwell_time)
             /\ UNCHANGED <<total_vehicles, speed_history>>
    ELSE UNCHANGED <<vehicles, total_vehicles, vehicles_in_scene,
                     speed_history, dwell_times, alerts>>

\* a read operation returns: the caller has the value
Returns(op, args, value) ==
    read_result' = [op |-> op, tick |-> 1 - read_result.tick,
                    args |-> args, value |-> value]

\* round(x, 1) of a number given as a fraction: the nearest tenth, as a
\* number of tenths.  No value of the runs lies halfway between two tenths.
Round1(x) == (2 * 10 * x.num + x.den) \div (2 * x.den)

\* get_average_speed(): 0 without speeds, else the mean of the last 50
get_average_speed ==
    IF speed_history = <<>> THEN Kmh(0)
    ELSE Mean(LastK(speed_history, SpeedWindow))

\* get_average_dwell_time(): 0 without dwell times, else their mean, in
\* seconds
get_average_dwell_time ==
    IF dwell_times = <<>> THEN Kmh(0)
    ELSE Lowest([num |-> SumSeq(dwell_times), den |-> 100 * Len(dwell_times)])

\* get_current_flow_rate(), elapsed being time.time() - self.start_time in
\* seconds
get_current_flow_rate(elapsed) ==
    IF Len(dwell_times) < 2 THEN Kmh(0)
    ELSE IF elapsed > 0 THEN [num |-> total_vehicles * 60, den |-> elapsed]
    ELSE Kmh(0)

\* get_traffic_density()
get_traffic_density ==
    IF vehicles_in_scene <= 2 THEN "BAIXO"
    ELSE IF vehicles_in_scene <= 5 THEN "MODERADO"
    ELSE IF vehicles_in_scene <= 10 THEN "ALTO"
    ELSE "CONGESTIONADO"

RECURSIVE MaxSpeed(_)
\* max(speed_estimates) of a non-empty list
MaxSpeed(speeds) ==
    IF Len(speeds) = 1 THEN Head(speeds)
    ELSE LET rest == MaxSpeed(Tail(speeds))
         IN  IF Faster(rest, Head(speeds)) THEN rest ELSE Head(speeds)

\* the dict get_vehicle_stats builds for a vehicle; the three rounded
\* numbers are in tenths
VehicleStats(vehicle) ==
    [track_id |-> vehicle.track_id,
     color |-> vehicle.color,
     type |-> vehicle.vehicle_type,
     avg_speed_kmh |-> IF vehicle.speed_estimates # <<>>
                       THEN Round1(Mean(vehicle.speed_estimates)) ELSE 0,
     max_speed_kmh |-> IF vehicle.speed_estimates # <<>>
                       THEN Round1(MaxSpeed(vehicle.speed_estimates)) ELSE 0,
     dwell_time_seconds |->
        IF vehicle.exit_time # 0
        THEN Round1([num |-> vehicle.exit_time - vehicle.entry_time,
                     den |-> 100])
        ELSE 0,
     direction |-> vehicle.direction,
     positions_count |-> Len(vehicle.positions)]

\* get_vehicle_stats(track_id): the value returned
VehicleStatsOrNone(track_id) ==
    IF track_id \notin DOMAIN vehicles THEN "None"
    ELSE VehicleStats(vehicles[track_id])

\* get_vehicle_stats on a dict that inserts the keys it is asked for
get_vehicle_stats_inserting(track_id) ==
    /\ Returns("get_vehicle_stats", <<track_id>>, VehicleStatsOrNone(track_id))
    /\ vehicles' = IF track_id \in DOMAIN vehicles THEN vehicles
                   ELSE (track_id :> VehicleMetrics(track_id, 0, <<0, 0>>))
                        @@ vehicles
    /\ UNCHANGED <<total_vehicles, vehicles_in_scene, speed_history,
                   dwell_times, alerts, exit_log, analytics_call>>

\* get_vehicle_stats(track_id)
get_vehicle_stats(track_id) ==
    /\ Returns("get_vehicle_stats", <<track_id>>, VehicleStatsOrNone(track_id))
    /\ UNCHANGED analytics_vars

\* get_recent_alerts(count): self.alerts[-count:], which is the whole list
\* for count = 0
get_recent_alerts(count) ==
    IF count = 0 THEN alerts ELSE LastK(alerts, count)

\* get_summary(), elapsed as in get_current_flow_rate; the rounded numbers
\* are in tenths
get_summary(elapsed) ==
    [total_vehicles |-> total_vehicles,
     vehicles_in_scene |-> vehicles_in_scene,
     average_speed_kmh |-> Round1(get_average_speed),
     average_dwell_time_s |-> Round1(get_average_dwell_time),
     flow_rate_per_minute |-> Round1(get_current_flow_rate(elapsed)),
     traffic_density |-> get_traffic_density,
     alerts_count |-> Len(alerts),
     recent_alerts |-> IF alerts # <<>> THEN LastK(alerts, 5) ELSE <<>>]

\* AdvancedAnalytics.reset with total_vehicles left as it is
analytics_reset_keep_total ==
    /\ vehicles' = <<>>
    /\ vehicles_in_scene' = 0
    /\ speed_history' = <<>>
    /\ dwell_times' = <<>>
    /\ alerts' = <<>>
    /\ UNCHANGED total_vehicles

\* AdvancedAnalytics.reset()
analytics_reset ==
    /\ vehicles' = <<>>
    /\ total_vehicles' = 0
    /\ vehicles_in_scene' = 0
    /\ speed_history' = <<>>
    /\ dwell_times' = <<>>
    /\ alerts' = <<>>

----------------------------------------------------------------------------
(* Inputs *)

\* the track ids the tracker hands out in the runs
TrackIds == {7, 8}

\* bounding boxes [x1, y1, x2, y2] for frame height 600 (line_y 300,
\* zone_margin 30): centre 270, on the upper edge of the zone, and centre
\* 310, inside it
BBoxes == {<<100, 260, 140, 280>>, <<100, 300, 140, 320>>}

\* tracked boxes: track 7 is detected as a truck, track 8 carries no
\* class_name; and boxes the tracker gave no identity (track_id -1, or no
\* track_id key at all)
TrackedBoxes ==
    [track_id : {7}, bbox : BBoxes, class_name : {"truck"}]
    \cup [track_id : {8}, bbox : BBoxes]
    \cup [track_id : {-1}, bbox : {<<100, 300, 140, 320>>}, class_name : {"car"}]
    \cup [bbox : {<<100, 300, 140, 320>>}]

\* one frame's list of tracked boxes
Frames ==
    {<<>>} \cup {<<b>> : b \in TrackedBoxes}
           \cup {<<b1, b2>> : b1 \in TrackedBoxes, b2 \in TrackedBoxes}

\* the (colors, timestamp) arguments handed to update with a frame
Calls ==
    {[colors |-> <<>>, timestamp |-> 0],
     [colors |-> (7 :> "azul") @@ (8 :> "vermelho"), timestamp |-> 1]}

NoCall == [op |-> "none"]

\* how many samples the runs feed to a track: track 7 stays in view for
\* MaxHist frames (beyond its count), track 8 is lost by the tracker once it
\* has the MinSamples samples a count needs
TrackLife(id) == IF id = 7 THEN MaxHist ELSE MinSamples

\* the samples a frame adds to track id's history
RECURSIVE SamplesOf(_, _)
SamplesOf(tracked_vehicles, id) ==
    IF tracked_vehicles = <<>> THEN 0
    ELSE (IF Get(Head(tracked_vehicles), "track_id", -1) = id THEN 1 ELSE 0)
         + SamplesOf(Tail(tracked_vehicles), id)

----------------------------------------------------------------------------
(* Operations *)

\* VehicleCounter(frame_height, line_position), line_position in percent
Construct(fh, lp) ==
    /\ frame_height = fh
    /\ line_y = IntProduct(fh, lp)
    /\ zone_margin = IntProduct(fh, 5)
    /\ counted_vehicles = {}
    /\ position_history = <<>>
    /\ stats = CountingStats
    /\ returned = <<>>
    /\ emitted = <<>>
    /\ call = NoCall
    /\ last_op = "init"

\* nothing has been handed in yet
LogInit ==
    /\ supplied = [id \in TrackIds |-> <<>>]
    /\ frame = <<>>

\* get_stats has not been called
SnapInit ==
    /\ snapshot = <<>>
    /\ snapshot_shared = FALSE

\* VehicleCounter(frame_height, line_position): the fields update works on
\* (frame_height, line_y and zone_margin are never assigned after
\* construction, and are the same for the same arguments)
NewCounter ==
    [counted_vehicles |-> {}, position_history |-> <<>>,
     stats |-> CountingStats, newly_counted |-> <<>>]

\* no reset yet
TwinInit ==
    /\ fresh = NewCounter
    /\ fresh_emitted = <<>>
    /\ reset_after = -1

\* VehicleCounter(600, 0.5) has returned
CtorInit ==
    /\ ctor = "constructed"
    /\ ctor_args = [frame_height |-> 600, line_position |-> 50]

\* ColorClassifier(): self.color_history = {}
ColorInit ==
    /\ color_history = <<>>
    /\ color_returned = NoCall
    /\ color_fed = [id \in TrackIds |-> <<>>]
    /\ color_call = NoCall

\* AdvancedAnalytics(): no vehicle, no speed, the counters at 0
AnalyticsInit ==
    /\ vehicles = <<>>
    /\ total_vehicles = 0
    /\ vehicles_in_scene = 0
    /\ speed_history = <<>>
    /\ dwell_times = <<>>
    /\ alerts = <<>>
    /\ exit_log = [id \in TrackIds |-> 0]
    /\ analytics_call = NoCall

\* the dashboard after _start_processing: the flags are set and the thread
\* is about to run _process_video
WorkerInit ==
    /\ is_running = TRUE
    /\ is_paused = FALSE
    /\ cap = "None"
    /\ vehicle_colors = <<>>
    /\ worker_pc = "open"
    /\ ui_pc = "idle"
    /\ frame_count = 0
    /\ cap_pos = 0
    /\ processed = <<>>
    /\ idling = FALSE
    /\ idled_at = -1
    /\ error_shown = FALSE

\* __init__, lines 123-126, and the clock at the start of the program
AlertInit ==
    /\ clock = ClockStart
    /\ cor_alerta = "None"
    /\ alert_requests = <<>>
    /\ ultimo_alerta_enviado = 0
    /\ alert_log = <<>>

\* no second start yet
RestartInit ==
    /\ worker2_pc = "none"
    /\ frame_count2 = 0

RestInit ==
    /\ ColorInit
    /\ AnalyticsInit
    /\ read_result = [op |-> "none", tick |-> 0]
    /\ WorkerInit
    /\ AlertInit
    /\ RestartInit
    /\ video_frames = MaxVideo

AuxInit == LogInit /\ SnapInit /\ TwinInit /\ CtorInit /\ RestInit

Init ==
    /\ Construct(600, 50)
    /\ scn_frame = 0
    /\ dir_positions = <<>>
    /\ dir_result = "idle"
    /\ AuxInit

\* update(tracked_vehicles, colors, timestamp)
Update(tracked_vehicles, colors, timestamp) ==
    \E c \in {UpdateLoop([counted_vehicles |-> counted_vehicles,
                           position_history |-> position_history,
                           stats |-> stats,
                           newly_counted |-> <<>>],
                          tracked_vehicles, colors, timestamp)} :
        /\ counted_vehicles' = c.counted_vehicles
        /\ position_history' = c.position_history
        /\ stats' = c.stats
        /\ returned' = c.newly_counted
        /\ emitted' = emitted \o c.newly_counted
        /\ call' = IF c.newly_counted = <<>> THEN NoCall
                   ELSE [op |-> "update", colors |-> colors,
                         timestamp |-> timestamp]
        /\ last_op' = "update"
        /\ UNCHANGED <<frame_height, line_y, zone_margin>>

UpdateCall ==
    \E tracked_vehicles \in Frames, args \in Calls :
        /\ \A id \in TrackIds :
              Len(DefaultGet(position_history, id, <<>>))
                  + SamplesOf(tracked_vehicles, id) <= TrackLife(id)
        /\ Update(tracked_vehicles, args.colors, args.timestamp)
        /\ UNCHANGED probe_vars
        /\ UNCHANGED aux_vars

\* reset without self.counted_vehicles.clear()
ResetKeepCounted ==
    /\ counted_vehicles' = counted_vehicles
    /\ position_history' = <<>>
    /\ stats' = CountingStats
    /\ returned' = <<>>
    /\ emitted' = <<>>
    /\ call' = NoCall
    /\ last_op' = "reset"
    /\ UNCHANGED <<frame_height, line_y, zone_margin>>
    /\ UNCHANGED probe_vars
    /\ UNCHANGED aux_vars

\* reset without self.position_history.clear()
reset_keep_history ==
    /\ counted_vehicles' = {}
    /\ position_history' = position_history
    /\ stats' = CountingStats
    /\ returned' = <<>>
    /\ emitted' = <<>>
    /\ call' = NoCall
    /\ last_op' = "reset"
    /\ UNCHANGED <<frame_height, line_y, zone_margin>>

\* reset(): the counted set and the histories are cleared, stats is a new
\* CountingStats object
reset ==
    /\ counted_vehicles' = {}
    /\ position_history' = <<>>
    /\ stats' = CountingStats
    /\ returned' = <<>>
    /\ emitted' = <<>>
    /\ call' = NoCall
    /\ last_op' = "reset"
    /\ UNCHANGED <<frame_height, line_y, zone_margin>>

\* reset()
Reset ==
    /\ reset
    /\ UNCHANGED probe_vars
    /\ UNCHANGED aux_vars

Next == UpdateCall \/ Reset

Spec == Init /\ [][Next]_vars

----------------------------------------------------------------------------
(* _get_direction as a function of the history: SpecDir *)

\* doubled centres 16, 17, 36 and 37
DirValues == {32, 34, 72, 74}

DirInputs == UNION {[1..n -> DirValues] : n \in 0..MaxDirLen}

InitDir ==
    /\ Construct(600, 50)
    /\ scn_frame = 0
    /\ dir_positions \in DirInputs
    /\ dir_result = "pending"
    /\ AuxInit

\* direction = self._get_direction(track_id)
DirCall ==
    /\ dir_result = "pending"
    /\ dir_result' = GetDirection(dir_positions)
    /\ UNCHANGED <<counter_vars, scn_frame, dir_positions>>
    /\ UNCHANGED aux_vars

NextDir == DirCall

SpecDir == InitDir /\ [][NextDir]_vars

----------------------------------------------------------------------------
(* The end-to-end scenario of the specification: SpecScenario *)

\* center_y of track 7 in the seven frames
Scenario == <<100, 150, 200, 250, 310, 330, 350>>

\* track 7's box in a frame: two box heights around the same centre, with
\* and without class_name
ScenarioBoxes(center_y) ==
    [track_id : {7},
     bbox : {<<100, center_y - 10, 140, center_y + 10>>,
             <<100, center_y - 25, 140, center_y + 25>>},
     class_name : {"truck"}]
    \cup [track_id : {7}, bbox : {<<100, center_y - 10, 140, center_y + 10>>}]

\* what else a frame of the scenario may hold: nothing, an untracked box on
\* the line, or track 8 passing far from the zone (centre 200 or 400)
ScenarioBackground ==
    {<<>>}
    \cup {<<b>> : b \in [track_id : {-1}, bbox : {<<300, 290, 340, 310>>}]}
    \cup {<<b>> : b \in [track_id : {8},
                         bbox : {<<300, 190, 340, 210>>, <<300, 390, 340, 410>>}]}

\* the colors dictionaries of the scenario: track 7 is azul in every frame
ScenarioColors == {(7 :> "azul"), (7 :> "azul") @@ (8 :> "vermelho")}

InitScenario ==
    /\ Construct(600, 50)
    /\ scn_frame = 0
    /\ dir_positions = <<>>
    /\ dir_result = "idle"
    /\ AuxInit

\* the next frame of the scenario
ScenarioFrame ==
    /\ scn_frame < Len(Scenario)
    /\ \E box \in ScenarioBoxes(Scenario[scn_frame + 1]),
          background \in ScenarioBackground,
          colors \in ScenarioColors,
          timestamp \in {scn_frame, scn_frame + 1} :
            \/ Update(<<box>> \o background, colors, timestamp)
            \/ Update(background \o <<box>>, colors, timestamp)
    /\ scn_frame' = scn_frame + 1
    /\ UNCHANGED dir_vars
    /\ UNCHANGED aux_vars

NextScenario == ScenarioFrame

SpecScenario == InitScenario /\ [][NextScenario]_vars

----------------------------------------------------------------------------
(* Long tracks, beyond the cap of the position history: SpecCap *)

\* center_y of the k-th sample of a track: track 7 moves down 10 px a frame
\* from 110 and crosses the zone at its 18th sample; track 8 moves up 2 px a
\* frame from 390 and enters the zone at its 32nd sample
CapCenter(id, k) == IF id = 7 THEN 100 + 10 * k ELSE 392 - 2 * k

\* the box of the k-th sample of a track
CapBox(id, k) ==
    [track_id |-> id, class_name |-> "car",
     bbox |-> <<100, CapCenter(id, k) - 10, 140, CapCenter(id, k) + 10>>]

\* the frames that may follow n7 samples of track 7 and n8 of track 8: one
\* of the tracks alone, both in either order, or track 7 twice in one list
CapFrames(n7, n8) ==
    {f \in {<<CapBox(7, n7 + 1)>>,
            <<CapBox(8, n8 + 1)>>,
            <<CapBox(7, n7 + 1), CapBox(8, n8 + 1)>>,
            <<CapBox(8, n8 + 1), CapBox(7, n7 + 1)>>,
            <<CapBox(7, n7 + 1), CapBox(7, n7 + 2)>>} :
        /\ n7 + SamplesOf(f, 7) <= MaxCapLen
        /\ n8 + SamplesOf(f, 8) <= MaxCapLen}

RECURSIVE Supply(_, _)
\* the log of supplied centres after a list of tracked boxes was handed in
Supply(log, tracked_vehicles) ==
    IF tracked_vehicles = <<>> THEN log
    ELSE Supply(IF Get(Head(tracked_vehicles), "track_id", -1) \in DOMAIN log
                THEN [log EXCEPT ![Head(tracked_vehicles).track_id] =
                        Append(@, Head(tracked_vehicles).bbox[2]
                                    + Head(tracked_vehicles).bbox[4])]
                ELSE log,
                Tail(tracked_vehicles))

\* update(tracked_vehicles, colors, timestamp) on the next frame of the tracks
CapCall ==
    \E tracked_vehicles \in CapFrames(Len(supplied[7]), Len(supplied[8])),
       args \in Calls :
        /\ Update(tracked_vehicles, args.colors, args.timestamp)
        /\ supplied' = Supply(supplied, tracked_vehicles)
        /\ UNCHANGED frame
        /\ UNCHANGED snap_vars
        /\ UNCHANGED twin_vars
        /\ UNCHANGED ctor_vars
        /\ UNCHANGED rest_vars
        /\ UNCHANGED probe_vars

NextCap == CapCall

SpecCap == Init /\ [][NextCap]_vars

----------------------------------------------------------------------------
(* Boxes without a track identity: SpecUntracked *)

\* what the tracker may hand over without an identity: track_id -1 (line 62
\* of tracker.py), no track_id key at all, and a negative id on an entry
\* that carries no bbox
UntrackedBoxes ==
    {[track_id |-> -1, bbox |-> <<100, 300, 140, 320>>, class_name |-> "car"],
     [bbox |-> <<100, 300, 140, 320>>, class_name |-> "bus"],
     [track_id |-> -3]}

\* track 7 on the edge of the zone and inside it
Track7Boxes == [track_id : {7}, bbox : BBoxes, class_name : {"truck"}]

UntrackedFrames ==
    LET boxes == UntrackedBoxes \cup Track7Boxes
    IN  {<<>>} \cup {<<b>> : b \in boxes}
               \cup {<<b1, b2>> : b1 \in boxes, b2 \in boxes}

\* colors dictionaries that also hold an entry for the id -1
UntrackedCalls ==
    {[colors |-> (-1 :> "preto") @@ (7 :> "azul"), timestamp |-> 1],
     [colors |-> <<>>, timestamp |-> 2]}

\* update(tracked_vehicles, colors, timestamp) on a list that may hold boxes
\* without identity
UntrackedCall ==
    \E tracked_vehicles \in UntrackedFrames, args \in UntrackedCalls :
        /\ Len(DefaultGet(position_history, 7, <<>>))
              + SamplesOf(tracked_vehicles, 7) <= MaxHist
        /\ Update(tracked_vehicles, args.colors, args.timestamp)
        /\ frame' = tracked_vehicles
        /\ UNCHANGED supplied
        /\ UNCHANGED snap_vars
        /\ UNCHANGED twin_vars
        /\ UNCHANGED ctor_vars
        /\ UNCHANGED rest_vars
        /\ UNCHANGED probe_vars

NextUntracked == UntrackedCall

SpecUntracked == Init /\ [][NextUntracked]_vars

----------------------------------------------------------------------------
(* The dict returned by get_stats and its holder: SpecSnapshot *)

\* center_y of the successive samples of a track: two on the edge of the
\* zone, then inside it; the fifth sample counts the track as 'entrada'
SnapPath == <<270, 270, 310, 310, 310>>

SnapBox(id, k) ==
    [track_id |-> id, class_name |-> "car",
     bbox |-> <<100, SnapPath[k] - 10, 140, SnapPath[k] + 10>>]

\* the lists that may follow n7 samples of track 7 and n8 of track 8
SnapFrames(n7, n8) ==
    (IF n7 < Len(SnapPath) THEN {<<SnapBox(7, n7 + 1)>>} ELSE {})
    \cup (IF n8 < Len(SnapPath) THEN {<<SnapBox(8, n8 + 1)>>} ELSE {})
    \cup (IF n7 < Len(SnapPath) /\ n8 < Len(SnapPath)
          THEN {<<SnapBox(7, n7 + 1), SnapBox(8, n8 + 1)>>} ELSE {})

\* both tracks azul, or track 8 vermelho
SnapColors == {(7 :> "azul") @@ (8 :> "azul"), (7 :> "azul") @@ (8 :> "vermelho")}

\* The holder's dict after the counter changed.  get_stats builds
\* 'por_cor': dict(self.stats.por_cor): a new outer dict whose values are the
\* counter's inner {'entrada': n, 'saida': m} dicts themselves, which
\* update increments in place (lines 122-123).  While they are shared, the
\* holder reads the counter's current numbers under the keys the outer dict
\* got when it was built; the ints and the key sets were copied.
Aliased(snap, shared, new_stats) ==
    IF snap = <<>> \/ ~ shared THEN snap
    ELSE [snap EXCEPT !.por_cor  = [k \in DOMAIN @ |-> new_stats.por_cor[k]],
                      !.por_tipo = [k \in DOMAIN @ |-> new_stats.por_tipo[k]]]

\* update(...) while a caller may hold a returned dict
SnapUpdate ==
    \E tracked_vehicles \in SnapFrames(Len(DefaultGet(position_history, 7, <<>>)),
                                       Len(DefaultGet(position_history, 8, <<>>))),
       colors \in SnapColors :
        /\ Update(tracked_vehicles, colors, 1)
        /\ snapshot' = Aliased(snapshot, snapshot_shared, stats')
        /\ UNCHANGED snapshot_shared
        /\ UNCHANGED log_vars
        /\ UNCHANGED twin_vars
        /\ UNCHANGED ctor_vars
        /\ UNCHANGED rest_vars
        /\ UNCHANGED probe_vars

\* s = get_stats()
GetStats ==
    /\ snapshot' = get_stats
    /\ snapshot_shared' = TRUE
    /\ last_op' = "get_stats"
    /\ UNCHANGED <<frame_height, line_y, zone_margin, counted_vehicles,
                   position_history, stats, returned, emitted, call>>
    /\ UNCHANGED log_vars
    /\ UNCHANGED twin_vars
    /\ UNCHANGED ctor_vars
    /\ UNCHANGED rest_vars
    /\ UNCHANGED probe_vars

\* the holder writes a top-level entry: s['total_entrada'] = 0
WriteTotal ==
    /\ snapshot # <<>>
    /\ snapshot' = [snapshot EXCEPT !.total_entrada = 0]
    /\ last_op' = "write"
    /\ UNCHANGED <<frame_height, line_y, zone_margin, counted_vehicles,
                   position_history, stats, returned, emitted, call>>
    /\ UNCHANGED snapshot_shared
    /\ UNCHANGED log_vars
    /\ UNCHANGED twin_vars
    /\ UNCHANGED ctor_vars
    /\ UNCHANGED rest_vars
    /\ UNCHANGED probe_vars

\* the holder writes a nested entry: s['por_cor'][color]['entrada'] = 0; the
\* inner dict is the counter's while it is shared
WriteCell ==
    /\ snapshot # <<>>
    /\ \E color \in DOMAIN snapshot.por_cor :
          /\ snapshot' = [snapshot EXCEPT !.por_cor[color].entrada = 0]
          /\ stats' = IF snapshot_shared
                      THEN [stats EXCEPT !.por_cor[color].entrada = 0]
                      ELSE stats
    /\ last_op' = "write"
    /\ UNCHANGED <<frame_height, line_y, zone_margin, counted_vehicles,
                   position_history, returned, emitted, call>>
    /\ UNCHANGED snapshot_shared
    /\ UNCHANGED log_vars
    /\ UNCHANGED twin_vars
    /\ UNCHANGED ctor_vars
    /\ UNCHANGED rest_vars
    /\ UNCHANGED probe_vars

\* reset() while a caller may hold a returned dict: self.stats becomes a new
\* CountingStats, and the inner dicts the holder has are the counter's no more
SnapReset ==
    /\ reset
    /\ snapshot_shared' = FALSE
    /\ UNCHANGED snapshot
    /\ UNCHANGED log_vars
    /\ UNCHANGED twin_vars
    /\ UNCHANGED ctor_vars
    /\ UNCHANGED rest_vars
    /\ UNCHANGED probe_vars

NextSnapshot == SnapUpdate \/ GetStats \/ WriteTotal \/ WriteCell \/ SnapReset

SpecSnapshot == Init /\ [][NextSnapshot]_vars

----------------------------------------------------------------------------
(* A reset counter next to a newly constructed one: SpecReset *)

\* update(tracked_vehicles, colors, timestamp) on both counters
TwinUpdate ==
    \E tracked_vehicles \in SnapFrames(Len(DefaultGet(position_history, 7, <<>>)),
                                       Len(DefaultGet(position_history, 8, <<>>))),
       colors \in SnapColors :
        /\ Update(tracked_vehicles, colors, 1)
        /\ \E c \in {UpdateLoop([fresh EXCEPT !.newly_counted = <<>>],
                                 tracked_vehicles, colors, 1)} :
              /\ fresh' = c
              /\ fresh_emitted' = fresh_emitted \o c.newly_counted
        /\ UNCHANGED reset_after
        /\ UNCHANGED log_vars
        /\ UNCHANGED snap_vars
        /\ UNCHANGED ctor_vars
        /\ UNCHANGED rest_vars
        /\ UNCHANGED probe_vars

\* reset() on the first counter, VehicleCounter(600, 0.5) anew for the second
TwinReset ==
    /\ reset
    /\ fresh' = NewCounter
    /\ fresh_emitted' = <<>>
    /\ reset_after' = Len(stats.registros)
    /\ UNCHANGED log_vars
    /\ UNCHANGED snap_vars
    /\ UNCHANGED ctor_vars
    /\ UNCHANGED rest_vars
    /\ UNCHANGED probe_vars

NextReset == TwinUpdate \/ TwinReset

SpecReset == Init /\ [][NextReset]_vars

----------------------------------------------------------------------------
(* Construction with any arguments: SpecConstruct *)

\* frame heights: non-positive ones, every small one, and common video heights
Heights == (-2..MaxHeight) \cup {-480, 100, 480, 590, 600, 720, 1080}

\* line positions in percent: inside [0, 1], on its ends, and outside it
Positions == {-10, 0, 20, 29, 50, 58, 80, 100, 150}

\* VehicleCounter(...) is about to be called: no instance exists yet
InitConstruct ==
    /\ ctor = "pending"
    /\ ctor_args \in [frame_height : Heights, line_position : Positions]
    /\ frame_height = 0
    /\ line_y = 0
    /\ zone_margin = 0
    /\ counted_vehicles = {}
    /\ position_history = <<>>
    /\ stats = CountingStats
    /\ returned = <<>>
    /\ emitted = <<>>
    /\ call = NoCall
    /\ last_op = "none"
    /\ scn_frame = 0
    /\ dir_positions = <<>>
    /\ dir_result = "idle"
    /\ LogInit /\ SnapInit /\ TwinInit /\ RestInit

\* VehicleCounter(frame_height, line_position): __init__ has no raise
\* statement and no test of its arguments; it returns an instance for any
\* two numbers
ConstructCall ==
    /\ ctor = "pending"
    /\ ctor' = "constructed"
    /\ frame_height' = ctor_args.frame_height
    /\ line_y' = IntProduct(ctor_args.frame_height, ctor_args.line_position)
    /\ zone_margin' = IntProduct(ctor_args.frame_height, 5)
    /\ counted_vehicles' = {}
    /\ position_history' = <<>>
    /\ stats' = CountingStats
    /\ last_op' = "init"
    /\ UNCHANGED <<returned, emitted, call, ctor_args>>
    /\ UNCHANGED <<log_vars, snap_vars, twin_vars>>
    /\ UNCHANGED rest_vars
    /\ UNCHANGED probe_vars

NextConstruct == ConstructCall

SpecConstruct == InitConstruct /\ [][NextConstruct]_vars

----------------------------------------------------------------------------
(* Temporal smoothing of the color of a track: SpecColor *)

\* frames of one color: 480 rows, 640 columns, every pixel the same HSV value
AzulImage == [height |-> 480, width |-> 640, hsv |-> <<100, 200, 200>>]

VermelhoImage == [height |-> 480, width |-> 640, hsv |-> <<5, 200, 200>>]

\* the box (100, 200) - (140, 260), in half pixels
GoodBox == <<200, 400, 280, 520>>

\* how many classifications a track gets: track 7 stays in view, track 8 is
\* seen once
FeedLife(id) == IF id = 7 THEN MaxFeed ELSE 1

\* color = classify_with_smoothing(track_id, frame, vehicle['bbox'])
Smooth(track_id, image, bbox2) ==
    \E r \in {classify_with_smoothing(color_history, track_id, image, bbox2)} :
        /\ color_history' = r.color_history
        /\ color_returned' = [op |-> "classify_with_smoothing",
                              track_id |-> track_id,
                              most_common |-> r.most_common]
        /\ color_fed' = [color_fed EXCEPT ![track_id] = Append(@, r.current_color)]

ColorCall ==
    \E track_id \in TrackIds, image \in {AzulImage, VermelhoImage} :
        /\ Len(color_fed[track_id]) < FeedLife(track_id)
        /\ Smooth(track_id, image, GoodBox)
        /\ UNCHANGED color_call
        /\ UNCHANGED beside_color

NextColor == ColorCall

SpecColor == Init /\ [][NextColor]_vars

----------------------------------------------------------------------------
(* classify on any box and frame: SpecClassify *)

\* frames of one color whose HSV value lies in two ranges at once (hue 10:
\* vermelho and laranja; low saturation: cinza and prata), in none, and
\* frames without rows or without columns
ClassifyImages ==
    {AzulImage, VermelhoImage,
     [height |-> 480, width |-> 640, hsv |-> <<10, 200, 200>>],
     [height |-> 480, width |-> 640, hsv |-> <<0, 20, 160>>],
     [height |-> 480, width |-> 640, hsv |-> <<0, 50, 100>>],
     [height |-> 0, width |-> 640, hsv |-> <<100, 200, 200>>],
     [height |-> 480, width |-> 0, hsv |-> <<100, 200, 200>>]}

\* boxes in half pixels: a good one, one pixel, half outside the frame;
\* inverted corners, zero width, zero height, right of the frame, above and
\* left of it, and half a pixel wide
ClassifyBoxes ==
    {GoodBox, <<200, 400, 202, 402>>, <<-40, 400, 80, 520>>,
     <<280, 400, 200, 520>>, <<200, 520, 280, 400>>,
     <<200, 400, 200, 520>>, <<200, 400, 280, 400>>,
     <<1400, 400, 1500, 520>>, <<-100, -100, -20, -20>>,
     <<200, 400, 201, 520>>}

ClassifyCall ==
    \E image \in ClassifyImages, bbox2 \in ClassifyBoxes :
        /\ Len(color_fed[7]) < MaxClassify
        /\ Smooth(7, image, bbox2)
        /\ color_call' = [op |-> "classify_with_smoothing",
                          frame |-> image, bbox |-> bbox2]
        /\ UNCHANGED beside_color

NextClassify == ClassifyCall

SpecClassify == Init /\ [][NextClassify]_vars

----------------------------------------------------------------------------
(* Speeds of the tracks, with any order of timestamps: SpecSpeed *)

\* boxes of 40 x 20 pixels centred at (100,100), (103,104) and (250,300):
\* displacements of 5, 245 and 250 pixels
SpeedBoxes ==
    {<<80, 90, 120, 110>>, <<83, 94, 123, 114>>, <<230, 290, 270, 310>>}

\* timestamps in hundredths of a second; a call may repeat the previous
\* timestamp or go back
SpeedTimes == {0, 9}

\* color and vehicle_type of a call: both absent or both given
SpeedLabels == {<<"None", "None">>, <<"azul", "truck">>}

\* how many samples a run gives to a track
SampleLife(id) == IF id = 7 THEN MaxSamples ELSE 2

Samples(id) ==
    IF id \in DOMAIN vehicles THEN Len(vehicles[id].positions) ELSE 0

SpeedCall ==
    \E track_id \in TrackIds, bbox \in SpeedBoxes, timestamp \in SpeedTimes,
       labels \in SpeedLabels :
        /\ Samples(track_id) < SampleLife(track_id)
        /\ update_vehicle(track_id, bbox, timestamp, labels[1], labels[2])
        /\ analytics_call' = [op |-> "update_vehicle", track_id |-> track_id,
                              bbox |-> bbox, timestamp |-> timestamp]
        /\ UNCHANGED exit_log
        /\ UNCHANGED beside_analytics

NextSpeed == SpeedCall

SpecSpeed == Init /\ [][NextSpeed]_vars

----------------------------------------------------------------------------
(* Sightings, exits and resets of the analytics, in any order: SpecExit *)

\* boxes of 40 x 20 pixels centred at (100,100), (106,108) and (370,460):
\* displacements of 10, 440 and 450 pixels, which in one second are 1.8,
\* 79.2 and 81 km/h.  Track 8 stays at (100,100).
ExitBoxes(id) ==
    IF id = 7
    THEN {<<80, 90, 120, 110>>, <<86, 98, 126, 118>>, <<350, 450, 390, 470>>}
    ELSE {<<80, 90, 120, 110>>}

\* the timestamp of a track's next sample, in hundredths of a second: track
\* 7 is first seen at 0 s or at 1 s, track 8 at 0 s, and then once a second
SightingTimes(id) ==
    IF id \in DOMAIN vehicles
    THEN {vehicles[id].positions[Len(vehicles[id].positions)][3] + 100}
    ELSE IF id = 7 THEN {0, 100} ELSE {0}

\* how many samples a run gives to a track
SightingLife(id) == IF id = 7 THEN MaxSamples ELSE 1

\* timestamp and direction of a vehicle_exited call: at 0 s, 60 s and 61 s
\* for track 7, at 61 s for track 8
Exits(id) ==
    IF id = 7
    THEN {<<0, "entrada">>, <<6000, "saida">>, <<6100, "entrada">>}
    ELSE {<<6100, "saida">>}

\* how many vehicle_exited calls a run makes for a track
ExitLife(id) == IF id = 7 THEN MaxExits ELSE 1

SightingCall ==
    \E track_id \in TrackIds :
      \E bbox \in ExitBoxes(track_id), timestamp \in SightingTimes(track_id) :
        /\ Samples(track_id) < SightingLife(track_id)
        /\ update_vehicle(track_id, bbox, timestamp, "None", "None")
        /\ analytics_call' = [op |-> "update_vehicle", track_id |-> track_id,
                              bbox |-> bbox, timestamp |-> timestamp]
        /\ UNCHANGED exit_log
        /\ UNCHANGED beside_analytics

\* vehicle_exited for a track, seen before or not
ExitCall ==
    \E track_id \in TrackIds :
      \E exit \in Exits(track_id) :
        /\ exit_log[track_id] < ExitLife(track_id)
        /\ vehicle_exited(track_id, exit[1], exit[2])
        /\ analytics_call' = [op |-> "vehicle_exited", track_id |-> track_id,
                              timestamp |-> exit[1], direction |-> exit[2]]
        /\ exit_log' = [exit_log EXCEPT ![track_id] = @ + 1]
        /\ UNCHANGED beside_analytics

AnalyticsReset ==
    /\ analytics_call # NoCall
    /\ analytics_call.op # "reset"
    /\ analytics_reset
    /\ analytics_call' = [op |-> "reset"]
    /\ exit_log' = [id \in TrackIds |-> 0]
    /\ UNCHANGED beside_analytics

NextExit == SightingCall \/ ExitCall \/ AnalyticsReset

SpecExit == Init /\ [][NextExit]_vars

----------------------------------------------------------------------------
(* A track that stays around the line: SpecHover *)

\* boxes of track 7 with center_y 290, 300, 310 and 310.5, all inside the
\* zone of the line at 300; the first three lie within 20 px of each other
HoverBoxes ==
    [track_id : {7}, class_name : {"car"},
     bbox : {<<100, 280, 140, 300>>, <<100, 290, 140, 310>>,
             <<100, 300, 140, 320>>, <<100, 300, 140, 321>>}]

\* update(tracked_vehicles, colors, timestamp) on one more box of the track
HoverCall ==
    \E box \in HoverBoxes, args \in Calls :
        /\ Len(supplied[7]) < MaxHover
        /\ Update(<<box>>, args.colors, args.timestamp)
        /\ supplied' = Supply(supplied, <<box>>)
        /\ UNCHANGED frame
        /\ UNCHANGED snap_vars
        /\ UNCHANGED twin_vars
        /\ UNCHANGED ctor_vars
        /\ UNCHANGED rest_vars
        /\ UNCHANGED probe_vars

NextHover == HoverCall

SpecHover == Init /\ [][NextHover]_vars

----------------------------------------------------------------------------
(* Reads between the calls that change the components: SpecRead *)

\* update(...) on the next sample of track 7 along SnapPath
ReaderUpdate ==
    /\ Len(DefaultGet(position_history, 7, <<>>)) < Len(SnapPath)
    /\ Update(<<SnapBox(7, Len(DefaultGet(position_history, 7, <<>>)) + 1)>>,
              (7 :> "azul"), 1)
    /\ UNCHANGED read_result
    /\ UNCHANGED beside_counter

\* boxes centred at (100,100) and (370,460), 450 pixels apart
ReaderBoxes(id) ==
    IF id = 7 THEN {<<80, 90, 120, 110>>, <<350, 450, 390, 470>>}
    ELSE {<<80, 90, 120, 110>>}

\* update_vehicle: track 7 is seen twice, a second apart, track 8 once
ReaderSighting ==
    \E track_id \in TrackIds :
      \E bbox \in ReaderBoxes(track_id) :
        /\ Samples(track_id) < (IF track_id = 7 THEN 2 ELSE 1)
        /\ update_vehicle(track_id, bbox, 100 * Samples(track_id),
                          "azul", "None")
        /\ analytics_call' = [op |-> "update_vehicle", track_id |-> track_id,
                              bbox |-> bbox,
                              timestamp |-> 100 * Samples(track_id)]
        /\ UNCHANGED exit_log
        /\ UNCHANGED read_result
        /\ UNCHANGED beside_engine

\* vehicle_exited at 61 s, once for each track
ReaderExit ==
    \E track_id \in TrackIds :
        /\ exit_log[track_id] < 1
        /\ vehicle_exited(track_id, 6100, "entrada")
        /\ analytics_call' = [op |-> "vehicle_exited", track_id |-> track_id,
                              timestamp |-> 6100, direction |-> "entrada"]
        /\ exit_log' = [exit_log EXCEPT ![track_id] = @ + 1]
        /\ UNCHANGED read_result
        /\ UNCHANGED beside_engine

\* time.time() - self.start_time at a read, in seconds; the clock may have
\* been set back
Elapsed == {-1, 0, 30}

ReadStats ==
    /\ Returns("get_stats", <<>>, get_stats)
    /\ UNCHANGED counter_vars
    /\ UNCHANGED beside_counter

ReadColorDistribution ==
    /\ Returns("get_color_distribution", <<>>, get_color_distribution(stats))
    /\ UNCHANGED counter_vars
    /\ UNCHANGED beside_counter

ReadSummary ==
    \E elapsed \in Elapsed :
        /\ Returns("get_summary", <<elapsed>>, get_summary(elapsed))
        /\ UNCHANGED analytics_vars
        /\ UNCHANGED beside_engine

ReadAverageSpeed ==
    /\ Returns("get_average_speed", <<>>, get_average_speed)
    /\ UNCHANGED analytics_vars
    /\ UNCHANGED beside_engine

ReadAverageDwellTime ==
    /\ Returns("get_average_dwell_time", <<>>, get_average_dwell_time)
    /\ UNCHANGED analytics_vars
    /\ UNCHANGED beside_engine

ReadFlowRate ==
    \E elapsed \in Elapsed :
        /\ Returns("get_current_flow_rate", <<elapsed>>,
                   get_current_flow_rate(elapsed))
        /\ UNCHANGED analytics_vars
        /\ UNCHANGED beside_engine

ReadTrafficDensity ==
    /\ Returns("get_traffic_density", <<>>, get_traffic_density)
    /\ UNCHANGED analytics_vars
    /\ UNCHANGED beside_engine

\* get_vehicle_stats for a track the engine may hold and for one it never has
ReadVehicleStats ==
    \E track_id \in TrackIds \cup {9} :
        /\ get_vehicle_stats(track_id)
        /\ UNCHANGED beside_engine

\* get_recent_alerts(), with its default count, and get_recent_alerts(1)
ReadRecentAlerts ==
    \E count \in {1, 10} :
        /\ Returns("get_recent_alerts", <<count>>, get_recent_alerts(count))
        /\ UNCHANGED analytics_vars
        /\ UNCHANGED beside_engine

NextRead ==
    \/ ReaderUpdate
    \/ ReaderSighting
    \/ ReaderExit
    \/ ReadStats
    \/ ReadColorDistribution
    \/ ReadSummary
    \/ ReadAverageSpeed
    \/ ReadAverageDwellTime
    \/ ReadFlowRate
    \/ ReadTrafficDensity
    \/ ReadVehicleStats
    \/ ReadRecentAlerts

SpecRead == Init /\ [][NextRead]_vars

----------------------------------------------------------------------------
(* The processing thread and the buttons of the dashboard: SpecWorker *)

\* the video: 600 x 800 frames of one color, 30 frames a second
WorkerVideo ==
    [height |-> 600, width |-> 800, fps |-> 30, hsv |-> <<100, 200, 200>>]

\* what tracker.update returns for frame k: track 7 moving down 10 px a
\* frame, and in every third frame a box without a track identity
Tracked(k) ==
    IF k % 3 = 0
    THEN <<CapBox(7, k),
           [track_id |-> -1, class_name |-> "car",
            bbox |-> <<300, 290, 340, 310>>]>>
    ELSE <<CapBox(7, k)>>

\* a box in half pixels
Halves(bbox) == [i \in 1..4 |-> 2 * bbox[i]]

RECURSIVE ClassifyLoop(_, _, _)
\* lines 987-994: for vehicle in tracked_vehicles, classify_with_smoothing
\* for the boxes with track_id >= 0 and vehicle_colors[track_id] = color
ClassifyLoop(st, tracked_vehicles, image) ==
    IF tracked_vehicles = <<>> THEN st
    ELSE LET vehicle == Head(tracked_vehicles)
             track_id == Get(vehicle, "track_id", -1)
         IN  IF track_id >= 0
             THEN CHOOSE out \in
                    {ClassifyLoop(next, Tail(tracked_vehicles), image) :
                       next \in
                         {[color_history |-> r.color_history,
                           vehicle_colors |->
                              DictSet(st.vehicle_colors, track_id,
                                      r.most_common),
                           color_fed |-> [st.color_fed EXCEPT ![track_id] =
                                              Append(@, r.current_color)],
                           color_returned |->
                              [op |-> "classify_with_smoothing",
                               track_id |-> track_id,
                               most_common |-> r.most_common]] :
                            r \in {classify_with_smoothing(
                                      st.color_history, track_id, image,
                                      Halves(vehicle.bbox))}}} : TRUE
             ELSE ClassifyLoop(st, Tail(tracked_vehicles), image)

\* self._stop_processing() run in one piece by the worker itself
StopByWorker ==
    /\ is_running' = FALSE
    /\ is_paused' = FALSE
    /\ cap' = "None"

\* lines 951: self.cap = cv2.VideoCapture(self.video_path)
WorkerOpen ==
    /\ worker_pc = "open"
    /\ cap' = "open"
    /\ worker_pc' = "setup"
    /\ UNCHANGED <<is_running, is_paused, vehicle_colors, ui_pc, frame_count,
                   cap_pos, processed, idling, idled_at, error_shown>>
    /\ UNCHANGED <<counter_vars, color_vars, analytics_vars>>
    /\ UNCHANGED beside_dashboard

\* lines 952-969: self.cap.isOpened() and self.cap.get(...), which raise
\* when self.cap is None or the capture was released; then the modules are
\* constructed, vehicle_colors = {} and frame_count = 0
WorkerSetup ==
    /\ worker_pc = "setup"
    /\ IF cap = "open"
       THEN /\ worker_pc' = "while"
            /\ frame_height' = WorkerVideo.height
            /\ line_y' = IntProduct(WorkerVideo.height, 50)
            /\ zone_margin' = IntProduct(WorkerVideo.height, 5)
            /\ counted_vehicles' = {}
            /\ position_history' = <<>>
            /\ stats' = CountingStats
            /\ returned' = <<>>
            /\ emitted' = <<>>
            /\ call' = NoCall
            /\ last_op' = "init"
            /\ color_history' = <<>>
            /\ color_returned' = NoCall
            /\ color_fed' = [id \in TrackIds |-> <<>>]
            /\ color_call' = NoCall
            /\ vehicles' = <<>>
            /\ total_vehicles' = 0
            /\ vehicles_in_scene' = 0
            /\ speed_history' = <<>>
            /\ dwell_times' = <<>>
            /\ alerts' = <<>>
            /\ exit_log' = [id \in TrackIds |-> 0]
            /\ analytics_call' = NoCall
            /\ vehicle_colors' = <<>>
            /\ frame_count' = 0
       ELSE /\ worker_pc' = "except"
            /\ UNCHANGED <<counter_vars, color_vars, analytics_vars>>
            /\ UNCHANGED <<vehicle_colors, frame_count>>
    /\ UNCHANGED <<is_running, is_paused, cap, ui_pc, cap_pos, processed,
                   idling, idled_at, error_shown>>
    /\ UNCHANGED beside_dashboard

\* line 971: while self.is_running
WorkerWhile ==
    /\ worker_pc = "while"
    /\ worker_pc' = IF is_running THEN "pause_check" ELSE "finish"
    /\ UNCHANGED <<is_running, is_paused, cap, vehicle_colors, ui_pc,
                   frame_count, cap_pos, processed, idling, idled_at,
                   error_shown>>
    /\ UNCHANGED <<counter_vars, color_vars, analytics_vars>>
    /\ UNCHANGED beside_dashboard

\* the pause check placed after the read: a frame is taken and dropped
\* while the flag is set
WorkerPauseCheckAfterRead ==
    /\ worker_pc = "pause_check"
    /\ IF is_paused
       THEN /\ worker_pc' = "while"
            /\ idling' = TRUE
            /\ idled_at' = frame_count
            /\ cap_pos' = IF cap = "open" /\ cap_pos < video_frames
                          THEN cap_pos + 1 ELSE cap_pos
       ELSE /\ worker_pc' = "read"
            /\ idling' = FALSE
            /\ UNCHANGED <<idled_at, cap_pos>>
    /\ UNCHANGED <<is_running, is_paused, cap, vehicle_colors, ui_pc,
                   frame_count, processed, error_shown>>
    /\ UNCHANGED <<counter_vars, color_vars, analytics_vars>>
    /\ UNCHANGED beside_dashboard

\* lines 972-974: if self.is_paused: time.sleep(0.1); continue
WorkerPauseCheck ==
    /\ worker_pc = "pause_check"
    /\ IF is_paused
       THEN /\ worker_pc' = "while"
            /\ idling' = TRUE
            /\ idled_at' = frame_count
            /\ UNCHANGED cap_pos
       ELSE /\ worker_pc' = "read"
            /\ idling' = FALSE
            /\ UNCHANGED <<idled_at, cap_pos>>
    /\ UNCHANGED <<is_running, is_paused, cap, vehicle_colors, ui_pc,
                   frame_count, processed, error_shown>>
    /\ UNCHANGED <<counter_vars, color_vars, analytics_vars>>
    /\ UNCHANGED beside_dashboard

\* lines 976-981: ret, frame = self.cap.read().  self.cap = None raises
\* AttributeError; a released capture and the end of the video give
\* ret = False and the loop is left; else frame_count += 1
WorkerRead ==
    /\ worker_pc = "read"
    /\ IF cap = "None"
       THEN /\ worker_pc' = "except"
            /\ UNCHANGED <<frame_count, cap_pos>>
       ELSE IF cap = "released" \/ cap_pos >= video_frames
       THEN /\ worker_pc' = "finish"
            /\ UNCHANGED <<frame_count, cap_pos>>
       ELSE /\ worker_pc' = "classify"
            /\ frame_count' = frame_count + 1
            /\ cap_pos' = cap_pos + 1
    /\ UNCHANGED <<is_running, is_paused, cap, vehicle_colors, ui_pc,
                   processed, idling, idled_at, error_shown>>
    /\ UNCHANGED <<counter_vars, color_vars, analytics_vars>>
    /\ UNCHANGED beside_dashboard

\* lines 983-994: detection, tracking and the classification of the colors
WorkerClassify ==
    /\ worker_pc = "classify"
    /\ \E st \in {ClassifyLoop([color_history |-> color_history,
                                vehicle_colors |-> vehicle_colors,
                                color_fed |-> color_fed,
                                color_returned |-> color_returned],
                               Tracked(cap_pos), WorkerVideo)} :
          /\ color_history' = st.color_history
          /\ vehicle_colors' = st.vehicle_colors
          /\ color_fed' = st.color_fed
          /\ color_returned' = st.color_returned
    /\ worker_pc' = "count"
    /\ UNCHANGED color_call
    /\ UNCHANGED <<is_running, is_paused, cap, ui_pc, frame_count, cap_pos,
                   processed, idling, idled_at, error_shown>>
    /\ UNCHANGED <<counter_vars, analytics_vars>>
    /\ UNCHANGED beside_dashboard

\* lines 996-1022: counter.update, the log of the events, the drawing, the
\* update of the UI and the sleep.  The analytics is called nowhere.
WorkerCount ==
    /\ worker_pc = "count"
    /\ Update(Tracked(cap_pos), vehicle_colors,
              [frame_count |-> frame_count, fps |-> WorkerVideo.fps])
    /\ processed' = Append(processed, frame_count)
    /\ worker_pc' = "while"
    /\ UNCHANGED <<is_running, is_paused, cap, vehicle_colors, ui_pc,
                   frame_count, cap_pos, idling, idled_at, error_shown>>
    /\ UNCHANGED <<color_vars, analytics_vars>>
    /\ UNCHANGED beside_dashboard

\* line 1024: self._stop_processing() after the loop
WorkerFinish ==
    /\ worker_pc = "finish"
    /\ StopByWorker
    /\ worker_pc' = "done"
    /\ UNCHANGED <<vehicle_colors, ui_pc, frame_count, cap_pos, processed,
                   idling, idled_at, error_shown>>
    /\ UNCHANGED <<counter_vars, color_vars, analytics_vars>>
    /\ UNCHANGED beside_dashboard

\* lines 1026-1028: except Exception: the error box is scheduled and
\* self._stop_processing() is called
WorkerExcept ==
    /\ worker_pc = "except"
    /\ error_shown' = TRUE
    /\ StopByWorker
    /\ worker_pc' = "done"
    /\ UNCHANGED <<vehicle_colors, ui_pc, frame_count, cap_pos, processed,
                   idling, idled_at>>
    /\ UNCHANGED <<counter_vars, color_vars, analytics_vars>>
    /\ UNCHANGED beside_dashboard

\* _toggle_pause, the PAUSAR / CONTINUAR button, enabled from the start of
\* the processing until _stop_processing disables it
TogglePause ==
    /\ ui_pc = "idle"
    /\ worker_pc # "done"
    /\ is_paused' = ~ is_paused
    /\ UNCHANGED <<is_running, cap, vehicle_colors, worker_pc, ui_pc,
                   frame_count, cap_pos, processed, idling, idled_at,
                   error_shown>>
    /\ UNCHANGED <<counter_vars, color_vars, analytics_vars>>
    /\ UNCHANGED beside_dashboard

\* _stop_processing on the UI thread, lines 935-936: the two flags
StopFlags ==
    /\ ui_pc = "idle"
    /\ worker_pc # "done"
    /\ is_running' = FALSE
    /\ is_paused' = FALSE
    /\ ui_pc' = "release"
    /\ UNCHANGED <<cap, vehicle_colors, worker_pc, frame_count, cap_pos,
                   processed, idling, idled_at, error_shown>>
    /\ UNCHANGED <<counter_vars, color_vars, analytics_vars>>
    /\ UNCHANGED beside_dashboard

\* lines 942-943: if self.cap: self.cap.release()
StopRelease ==
    /\ ui_pc = "release"
    /\ IF cap # "None"
       THEN cap' = "released" /\ ui_pc' = "clear"
       ELSE UNCHANGED cap /\ ui_pc' = "stopped"
    /\ UNCHANGED <<is_running, is_paused, vehicle_colors, worker_pc,
                   frame_count, cap_pos, processed, idling, idled_at,
                   error_shown>>
    /\ UNCHANGED <<counter_vars, color_vars, analytics_vars>>
    /\ UNCHANGED beside_dashboard

\* line 944: self.cap = None
StopClear ==
    /\ ui_pc = "clear"
    /\ cap' = "None"
    /\ ui_pc' = "stopped"
    /\ UNCHANGED <<is_running, is_paused, vehicle_colors, worker_pc,
                   frame_count, cap_pos, processed, idling, idled_at,
                   error_shown>>
    /\ UNCHANGED <<counter_vars, color_vars, analytics_vars>>
    /\ UNCHANGED beside_dashboard

NextWorker ==
    \/ WorkerOpen
    \/ WorkerSetup
    \/ WorkerWhile
    \/ WorkerPauseCheck
    \/ WorkerRead
    \/ WorkerClassify
    \/ WorkerCount
    \/ WorkerFinish
    \/ WorkerExcept
    \/ TogglePause
    \/ StopFlags
    \/ StopRelease
    \/ StopClear

SpecWorker == Init /\ [][NextWorker]_vars

----------------------------------------------------------------------------
(* A track at the edges of the counting zone: SpecZone *)

\* boxes of track 7 for frame height 600 (line_y 300, zone_margin 30) with
\* center_y 200 and 400, far from the line, 270 and 330, at the two edges of
\* the band, and 270.5 and 329.5, just inside them
ZoneBoxes ==
    [track_id : {7}, class_name : {"car"},
     bbox : {<<100, 190, 140, 210>>, <<100, 390, 140, 410>>,
             <<100, 260, 140, 280>>, <<100, 320, 140, 340>>,
             <<100, 260, 140, 281>>, <<100, 319, 140, 340>>}]

\* update(tracked_vehicles, colors, timestamp) on one more box of the track
ZoneCall ==
    \E box \in ZoneBoxes, args \in Calls :
        /\ Len(supplied[7]) < MaxZone
        /\ Update(<<box>>, args.colors, args.timestamp)
        /\ supplied' = Supply(supplied, <<box>>)
        /\ UNCHANGED frame
        /\ UNCHANGED snap_vars
        /\ UNCHANGED twin_vars
        /\ UNCHANGED ctor_vars
        /\ UNCHANGED rest_vars
        /\ UNCHANGED probe_vars

NextZone == ZoneCall

SpecZone == Init /\ [][NextZone]_vars

----------------------------------------------------------------------------
(* Sightings of an untracked box: SpecNoIdentity *)

\* the track ids update_vehicle is called with: a tracked box and one the
\* tracker gave no identity
SightedIds == {-1, 7}

\* update_vehicle(track_id, bbox, timestamp) for a box with or without an
\* identity
NoIdentityCall ==
    \E track_id \in SightedIds, bbox \in SpeedBoxes, timestamp \in SpeedTimes :
        /\ Samples(track_id) < SampleLife(track_id)
        /\ update_vehicle(track_id, bbox, timestamp, "None", "None")
        /\ analytics_call' = [op |-> "update_vehicle", track_id |-> track_id,
                              bbox |-> bbox, timestamp |-> timestamp]
        /\ UNCHANGED exit_log
        /\ UNCHANGED beside_analytics

NextNoIdentity == NoIdentityCall

SpecNoIdentity == Init /\ [][NextNoIdentity]_vars

----------------------------------------------------------------------------
(* A track that moves one way only: SpecMonotone *)

\* the center_y a one-way track passes: before the zone (200 going down,
\* 400 going up) and 280, 302 and 324 inside it
MonotoneCenters(id) ==
    IF id = 7 THEN {200, 280, 302, 324} ELSE {400, 324, 302, 280}

\* the centres the next sample of a track may have: track 7 never moves up
\* the image, track 8 never moves down
MonotoneNext(id) ==
    {c \in MonotoneCenters(id) :
        \/ supplied[id] = <<>>
        \/ id = 7 /\ 2 * c >= supplied[id][Len(supplied[id])]
        \/ id = 8 /\ 2 * c <= supplied[id][Len(supplied[id])]}

\* update(tracked_vehicles, colors, timestamp) on one more box of the only
\* track of the run
MonotoneCall ==
    \E id \in TrackIds :
      \E c \in MonotoneNext(id) :
        /\ \A other \in TrackIds \ {id} : supplied[other] = <<>>
        /\ Len(supplied[id]) < MaxMonotone
        /\ Update(<<[track_id |-> id, class_name |-> "car",
                     bbox |-> <<100, c - 10, 140, c + 10>>]>>, <<>>, 0)
        /\ supplied' = Supply(supplied,
                              <<[track_id |-> id,
                                 bbox |-> <<100, c - 10, 140, c + 10>>]>>)
        /\ UNCHANGED frame
        /\ UNCHANGED snap_vars
        /\ UNCHANGED twin_vars
        /\ UNCHANGED ctor_vars
        /\ UNCHANGED rest_vars
        /\ UNCHANGED probe_vars

NextMonotone == MonotoneCall

SpecMonotone == Init /\ [][NextMonotone]_vars

----------------------------------------------------------------------------
(* From detections to tracked boxes: SpecTracker *)

\* VEHICLE_CLASSES of the detector: the class_name of a COCO class id
VEHICLE_CLASSES(class_id) ==
    CASE class_id = 2 -> "car"
      [] class_id = 3 -> "motorcycle"
      [] class_id = 5 -> "bus"
      [] class_id = 7 -> "truck"

\* the detector's entry for a vehicle: a car in the lane at x = 100 and a
\* truck in the lane at x = 300, both at the k-th centre of SnapPath
Detection(lane, k) ==
    [bbox |-> <<lane, SnapPath[k] - 10, lane + 40, SnapPath[k] + 10>>,
     class_id |-> IF lane = 100 THEN 2 ELSE 7,
     class_name |-> VEHICLE_CLASSES(IF lane = 100 THEN 2 ELSE 7)]

\* the tracker_id the ByteTrack object gives a box: the vehicle in the lane
\* at x = 100 is track 7 and the one in the lane at x = 300 is track 8
TrackerId(bbox) == IF bbox[1] = 100 THEN 7 ELSE 8

\* the lane of a track
LaneOf(id) == IF id = 7 THEN 100 ELSE 300

\* tracker.update(detections, frame): every detection comes back from
\* update_with_detections with its box, its class_id and a tracker_id, and
\* each entry of tracked_list takes its class_name from detections[0]
tracker_update(detections) ==
    IF detections = <<>> THEN <<>>
    ELSE [i \in 1..Len(detections) |->
            [bbox |-> detections[i].bbox,
             class_id |-> detections[i].class_id,
             class_name |-> detections[1].class_name,
             track_id |-> TrackerId(detections[i].bbox)]]

\* detector.detect on the next frame of the two vehicles, n7 and n8 samples
\* into their paths: one of them alone or both in either order
Detections(n7, n8) ==
    (IF n7 < Len(SnapPath) THEN {<<Detection(100, n7 + 1)>>} ELSE {})
    \cup (IF n8 < Len(SnapPath) THEN {<<Detection(300, n8 + 1)>>} ELSE {})
    \cup (IF n7 < Len(SnapPath) /\ n8 < Len(SnapPath)
          THEN {<<Detection(100, n7 + 1), Detection(300, n8 + 1)>>,
                <<Detection(300, n8 + 1), Detection(100, n7 + 1)>>}
          ELSE {})

\* one frame of the pipeline: detect, tracker.update, counter.update
TrackerCall ==
    \E detections \in Detections(Len(DefaultGet(position_history, 7, <<>>)),
                                 Len(DefaultGet(position_history, 8, <<>>))),
       colors \in SnapColors :
        /\ Update(tracker_update(detections), colors, 1)
        /\ frame' = tracker_update(detections)
        /\ UNCHANGED supplied
        /\ UNCHANGED snap_vars
        /\ UNCHANGED twin_vars
        /\ UNCHANGED ctor_vars
        /\ UNCHANGED rest_vars
        /\ UNCHANGED probe_vars

NextTracker == TrackerCall

SpecTracker == Init /\ [][NextTracker]_vars

----------------------------------------------------------------------------
(* The color alert of the dashboard: SpecAlert *)

\* what no step of the color alert touches
beside_alert == <<counter_vars, probe_vars, log_vars, snap_vars, twin_vars,
                  ctor_vars, color_vars, analytics_vars, read_result,
                  worker_vars, restart_vars, video_vars>>

\* how many alert requests the worker has made
Requested == Len(alert_requests) + Len(alert_log)

\* a second passes
Tick ==
    /\ clock < ClockStart + MaxSeconds
    /\ clock' = clock + 1
    /\ UNCHANGED <<cor_alerta, alert_requests, ultimo_alerta_enviado,
                   alert_log>>
    /\ UNCHANGED beside_alert

\* _on_cor_alerta_change: "Nenhuma" or a color is chosen in the combo box
OnCorAlertaChange ==
    /\ \E cor \in {"Nenhuma", "Azul"} :
          cor_alerta' = IF cor = "Nenhuma" THEN "None" ELSE "azul"
    /\ UNCHANGED <<clock, alert_requests, ultimo_alerta_enviado, alert_log>>
    /\ UNCHANGED beside_alert

\* _process_video, lines 1004-1014, for one counted vehicle: when its color
\* is the watched one, root.after(0, ...) queues a _disparar_alerta call
\* for the UI thread
CountedVehicle ==
    /\ Requested < MaxAlertVehicles
    /\ \E color \in {"azul", "vermelho"} :
          alert_requests' =
            IF cor_alerta # "None" /\ color = cor_alerta
            THEN Append(alert_requests,
                        [track_id |-> Requested + 1, cor |-> color,
                         counted_at |-> clock])
            ELSE alert_requests
    /\ UNCHANGED <<clock, cor_alerta, ultimo_alerta_enviado, alert_log>>
    /\ UNCHANGED beside_alert

\* _disparar_alerta without self.ultimo_alerta_enviado = agora
DispararAlertaNoStamp ==
    /\ alert_requests # <<>>
    /\ alert_requests' = Tail(alert_requests)
    /\ LET agora == clock
           request == Head(alert_requests)
       IN  IF agora - ultimo_alerta_enviado < AlertGap
           THEN alert_log' = Append(alert_log,
                    [track_id |-> request.track_id, at |-> agora,
                     counted_at |-> request.counted_at, dispatched |-> FALSE])
           ELSE alert_log' = Append(alert_log,
                    [track_id |-> request.track_id, at |-> agora,
                     counted_at |-> request.counted_at, dispatched |-> TRUE])
    /\ UNCHANGED ultimo_alerta_enviado
    /\ UNCHANGED <<clock, cor_alerta>>
    /\ UNCHANGED beside_alert

\* the UI thread runs the oldest queued call, _disparar_alerta(track_id,
\* cor, direcao): it returns at once when the latest alert is less than 10
\* seconds old, else it stamps the time, writes the log entry, starts the
\* Telegram thread and the flash
DispararAlerta ==
    /\ alert_requests # <<>>
    /\ alert_requests' = Tail(alert_requests)
    /\ LET agora == clock
           request == Head(alert_requests)
       IN  IF agora - ultimo_alerta_enviado < AlertGap
           THEN /\ UNCHANGED ultimo_alerta_enviado
                /\ alert_log' = Append(alert_log,
                     [track_id |-> request.track_id, at |-> agora,
                      counted_at |-> request.counted_at, dispatched |-> FALSE])
           ELSE /\ ultimo_alerta_enviado' = agora
                /\ alert_log' = Append(alert_log,
                     [track_id |-> request.track_id, at |-> agora,
                      counted_at |-> request.counted_at, dispatched |-> TRUE])
    /\ UNCHANGED <<clock, cor_alerta>>
    /\ UNCHANGED beside_alert

NextAlert == Tick \/ OnCorAlertaChange \/ CountedVehicle \/ DispararAlerta

SpecAlert == Init /\ [][NextAlert]_vars

----------------------------------------------------------------------------
(* Starting again after a stop: SpecRestart *)

\* what no step of the second processing thread touches, besides the
\* instruments of the first
beside_restart == <<probe_vars, log_vars, snap_vars, twin_vars, ctor_vars,
                    read_result, alert_vars, video_vars, worker_pc,
                    frame_count, processed, idling, idled_at>>

\* _start_processing, the INICIAR button: _stop_processing has enabled it
\* again, on the UI thread or at the end of _process_video.  The flags are
\* set and a new thread is started; the thread of the previous start is
\* neither joined nor looked at.
StartAgain ==
    /\ ~ is_running
    /\ ui_pc \in {"idle", "stopped"}
    /\ worker2_pc = "none"
    /\ is_running' = TRUE
    /\ is_paused' = FALSE
    /\ ui_pc' = "idle"
    /\ worker2_pc' = "open"
    /\ UNCHANGED <<cap, vehicle_colors, cap_pos, error_shown, frame_count2>>
    /\ UNCHANGED <<counter_vars, color_vars, analytics_vars>>
    /\ UNCHANGED beside_restart

\* line 951 in the second thread: self.cap is a new capture, at its start
Worker2Open ==
    /\ worker2_pc = "open"
    /\ cap' = "open"
    /\ cap_pos' = 0
    /\ worker2_pc' = "setup"
    /\ UNCHANGED <<is_running, is_paused, vehicle_colors, ui_pc, error_shown,
                   frame_count2>>
    /\ UNCHANGED <<counter_vars, color_vars, analytics_vars>>
    /\ UNCHANGED beside_restart

\* lines 952-969 in the second thread: new modules replace the ones the
\* dashboard holds
Worker2Setup ==
    /\ worker2_pc = "setup"
    /\ IF cap = "open"
       THEN /\ worker2_pc' = "while"
            /\ frame_height' = WorkerVideo.height
            /\ line_y' = IntProduct(WorkerVideo.height, 50)
            /\ zone_margin' = IntProduct(WorkerVideo.height, 5)
            /\ counted_vehicles' = {}
            /\ position_history' = <<>>
            /\ stats' = CountingStats
            /\ returned' = <<>>
            /\ emitted' = <<>>
            /\ call' = NoCall
            /\ last_op' = "init"
            /\ color_history' = <<>>
            /\ color_returned' = NoCall
            /\ color_fed' = [id \in TrackIds |-> <<>>]
            /\ color_call' = NoCall
            /\ vehicles' = <<>>
            /\ total_vehicles' = 0
            /\ vehicles_in_scene' = 0
            /\ speed_history' = <<>>
            /\ dwell_times' = <<>>
            /\ alerts' = <<>>
            /\ exit_log' = [id \in TrackIds |-> 0]
            /\ analytics_call' = NoCall
            /\ vehicle_colors' = <<>>
            /\ frame_count2' = 0
       ELSE /\ worker2_pc' = "except"
            /\ UNCHANGED <<counter_vars, color_vars, analytics_vars>>
            /\ UNCHANGED <<vehicle_colors, frame_count2>>
    /\ UNCHANGED <<is_running, is_paused, cap, ui_pc, cap_pos, error_shown>>
    /\ UNCHANGED beside_restart

\* line 971 in the second thread
Worker2While ==
    /\ worker2_pc = "while"
    /\ worker2_pc' = IF is_running THEN "pause_check" ELSE "finish"
    /\ UNCHANGED <<is_running, is_paused, cap, vehicle_colors, ui_pc,
                   cap_pos, error_shown, frame_count2>>
    /\ UNCHANGED <<counter_vars, color_vars, analytics_vars>>
    /\ UNCHANGED beside_restart

\* lines 972-974 in the second thread
Worker2PauseCheck ==
    /\ worker2_pc = "pause_check"
    /\ worker2_pc' = IF is_paused THEN "while" ELSE "read"
    /\ UNCHANGED <<is_running, is_paused, cap, vehicle_colors, ui_pc,
                   cap_pos, error_shown, frame_count2>>
    /\ UNCHANGED <<counter_vars, color_vars, analytics_vars>>
    /\ UNCHANGED beside_restart

\* lines 976-981 in the second thread
Worker2Read ==
    /\ worker2_pc = "read"
    /\ IF cap = "None"
       THEN /\ worker2_pc' = "except"
            /\ UNCHANGED <<frame_count2, cap_pos>>
       ELSE IF cap = "released" \/ cap_pos >= video_frames
       THEN /\ worker2_pc' = "finish"
            /\ UNCHANGED <<frame_count2, cap_pos>>
       ELSE /\ worker2_pc' = "classify"
            /\ frame_count2' = frame_count2 + 1
            /\ cap_pos' = cap_pos + 1
    /\ UNCHANGED <<is_running, is_paused, cap, vehicle_colors, ui_pc,
                   error_shown>>
    /\ UNCHANGED <<counter_vars, color_vars, analytics_vars>>
    /\ UNCHANGED beside_restart

\* lines 983-994 in the second thread
Worker2Classify ==
    /\ worker2_pc = "classify"
    /\ \E st \in {ClassifyLoop([color_history |-> color_history,
                                vehicle_colors |-> vehicle_colors,
                                color_fed |-> color_fed,
                                color_returned |-> color_returned],
                               Tracked(cap_pos), WorkerVideo)} :
          /\ color_history' = st.color_history
          /\ vehicle_colors' = st.vehicle_colors
          /\ color_fed' = st.color_fed
          /\ color_returned' = st.color_returned
    /\ worker2_pc' = "count"
    /\ UNCHANGED color_call
    /\ UNCHANGED <<is_running, is_paused, cap, ui_pc, cap_pos, error_shown,
                   frame_count2>>
    /\ UNCHANGED <<counter_vars, analytics_vars>>
    /\ UNCHANGED beside_restart

\* lines 996-1022 in the second thread
Worker2Count ==
    /\ worker2_pc = "count"
    /\ Update(Tracked(cap_pos), vehicle_colors,
              [frame_count |-> frame_count2, fps |-> WorkerVideo.fps])
    /\ worker2_pc' = "while"
    /\ UNCHANGED <<is_running, is_paused, cap, vehicle_colors, ui_pc,
                   cap_pos, error_shown, frame_count2>>
    /\ UNCHANGED <<color_vars, analytics_vars>>
    /\ UNCHANGED beside_restart

\* line 1024 in the second thread
Worker2Finish ==
    /\ worker2_pc = "finish"
    /\ StopByWorker
    /\ worker2_pc' = "done"
    /\ UNCHANGED <<vehicle_colors, ui_pc, cap_pos, error_shown, frame_count2>>
    /\ UNCHANGED <<counter_vars, color_vars, analytics_vars>>
    /\ UNCHANGED beside_restart

\* lines 1026-1028 in the second thread
Worker2Except ==
    /\ worker2_pc = "except"
    /\ error_shown' = TRUE
    /\ StopByWorker
    /\ worker2_pc' = "done"
    /\ UNCHANGED <<vehicle_colors, ui_pc, cap_pos, frame_count2>>
    /\ UNCHANGED <<counter_vars, color_vars, analytics_vars>>
    /\ UNCHANGED beside_restart

\* a step of the thread of the first start
WorkerStep ==
    \/ WorkerOpen
    \/ WorkerSetup
    \/ WorkerWhile
    \/ WorkerPauseCheck
    \/ WorkerRead
    \/ WorkerClassify
    \/ WorkerCount
    \/ WorkerFinish
    \/ WorkerExcept

\* a step of the thread of the second start
Worker2Step ==
    \/ Worker2Open
    \/ Worker2Setup
    \/ Worker2While
    \/ Worker2PauseCheck
    \/ Worker2Read
    \/ Worker2Classify
    \/ Worker2Count
    \/ Worker2Finish
    \/ Worker2Except

\* a handler of the UI thread
ButtonStep ==
    \/ TogglePause
    \/ StopFlags
    \/ StopRelease
    \/ StopClear
    \/ StartAgain

NextRestart == WorkerStep \/ Worker2Step \/ ButtonStep

\* the program after the first start on a short video
InitShort ==
    /\ Construct(600, 50)
    /\ scn_frame = 0
    /\ dir_positions = <<>>
    /\ dir_result = "idle"
    /\ LogInit
    /\ SnapInit
    /\ TwinInit
    /\ CtorInit
    /\ ColorInit
    /\ AnalyticsInit
    /\ read_result = [op |-> "none", tick |-> 0]
    /\ WorkerInit
    /\ AlertInit
    /\ RestartInit
    /\ video_frames = MaxShortVideo

SpecRestart == InitShort /\ [][NextRestart]_vars

\* the threads keep being scheduled: a thread that can take a step takes one
SpecRestartFair ==
    /\ InitShort
    /\ [][NextRestart]_vars
    /\ WF_vars(WorkerStep)
    /\ WF_vars(Worker2Step)

\* one start only, the threads scheduled likewise
SpecWorkerFair == Init /\ [][NextWorker]_vars /\ WF_vars(WorkerStep)

----------------------------------------------------------------------------
(* Reference notions used by the properties *)

\* the exact (rational) value of mean(second half) - mean(first half), with
\* the first half being the first `h` samples, compared with t pixels:
\* -1, 0 or 1 as the difference is below, equal to or above t.  Positions
\* are doubled centres, so the difference of means is
\*   (sum(end) * h - sum(start) * (n - h)) / (2 * h * (n - h)).
MeanDiffCmp(positions, h, t) ==
    LET n    == Len(positions)
        lhs  == SumSeq(SubSeq(positions, h + 1, n)) * h
                    - SumSeq(SubSeq(positions, 1, h)) * (n - h)
        rhs  == t * 2 * h * (n - h)
    IN  IF lhs > rhs THEN 1 ELSE IF lhs < rhs THEN -1 ELSE 0

\* the direction the split-mean rule prescribes for a history of >= 5
\* samples, the first half being the first floor(n/2) samples
PrescribedDirection(positions) ==
    IF MeanDiffCmp(positions, Len(positions) \div 2, 20) = 1 THEN "entrada"
    ELSE IF MeanDiffCmp(positions, Len(positions) \div 2, -20) = -1 THEN "saida"
    ELSE NoDirection

----------------------------------------------------------------------------
(* C4 *)

\* C4: for every position history of at least 5 samples _get_direction
\* returns 'entrada' when mean(second half) - mean(first half) > 20, 'saida'
\* when it is < -20, and no direction when it lies in [-20, 20], the
\* boundary values +20 and -20 included.
C4_DirectionByMeanDifference ==
    (dir_result # "pending" /\ Len(dir_positions) >= 5)
        => dir_result = PrescribedDirection(dir_positions)

\* the part of C4 that holds of the code: strictly above 20 gives 'entrada',
\* strictly below -20 gives 'saida', strictly inside (-20, 20) gives none
C4_DirectionOffBoundary ==
    (dir_result # "pending" /\ Len(dir_positions) >= 5
        /\ MeanDiffCmp(dir_positions, Len(dir_positions) \div 2, 20) # 0
        /\ MeanDiffCmp(dir_positions, Len(dir_positions) \div 2, -20) # 0)
        => dir_result = PrescribedDirection(dir_positions)

----------------------------------------------------------------------------
(* Reading the counter's state in the properties *)

\* the position history of a track before and after a step
Hist(id) == IF id \in DOMAIN position_history THEN position_history[id] ELSE <<>>

HistNext(id) ==
    IF id \in DOMAIN position_history' THEN position_history'[id] ELSE <<>>

\* |center_y - line_y| < zone_margin on a doubled centre
InZone(center_y2) ==
    /\ center_y2 > 2 * line_y - 2 * zone_margin
    /\ center_y2 < 2 * line_y + 2 * zone_margin

\* the stored value of a por_cor / por_tipo cell, 0 when the key is absent
Cell(d, key, direction) == IF key \in DOMAIN d THEN d[key][direction] ELSE 0

Directions == {"entrada", "saida"}

\* the records a step appended
NewRecords == SubSeq(stats'.registros, Len(stats.registros) + 1, Len(stats'.registros))

\* how many of the records recs have field `field` equal to v and direction d
CountOf(recs, field, v, d) ==
    Cardinality({k \in 1..Len(recs) : recs[k][field] = v /\ recs[k].direction = d})

\* the class names of the boxes the frames carry for a track ('car' when a
\* box has no class_name)
ClassNamesOf(id) ==
    {Get(b, "class_name", "car") :
        b \in {x \in TrackedBoxes : Get(x, "track_id", -1) = id}}

----------------------------------------------------------------------------
(* C1 *)

\* C1: no track id appears in more than one emitted (track_id, direction)
\* pair, and total_entrada + total_saida equals the number of pairs emitted.
C1_AtMostOnceCounting ==
    /\ \A i, j \in 1..Len(emitted) : i # j => emitted[i][1] # emitted[j][1]
    /\ stats.total_entrada + stats.total_saida = Len(emitted)

\* both tracks were counted, and track 7 was then seen again inside the zone
\* with a determined direction
C1_Witness ==
    /\ Len(emitted) = 2
    /\ Len(Hist(7)) > MinSamples
    /\ InZone(Hist(7)[Len(Hist(7))])
    /\ GetDirection(Hist(7)) # NoDirection

----------------------------------------------------------------------------
(* C2 *)

\* C2: in every reachable state total_entrada + total_saida equals the number
\* of stored records, and get_stats reports total_geral equal to its record
\* count.
C2_TotalsMatchRecords ==
    /\ stats.total_entrada + stats.total_saida = Len(stats.registros)
    /\ get_stats.total_geral = get_stats.registros

\* one vehicle was counted in each direction
C2_Witness ==
    /\ stats.total_entrada = 1
    /\ stats.total_saida = 1
    /\ get_stats.registros = 2

----------------------------------------------------------------------------
(* C3 *)

\* C3: the track ids of the stored records are pairwise distinct and the set
\* of those ids is exactly counted_vehicles.
C3_RecordsMatchCounted ==
    /\ \A i, j \in 1..Len(stats.registros) :
          i # j => stats.registros[i].track_id # stats.registros[j].track_id
    /\ {stats.registros[i].track_id : i \in 1..Len(stats.registros)}
          = counted_vehicles

\* two different tracks are counted
C3_Witness ==
    /\ Cardinality(counted_vehicles) = 2
    /\ Len(stats.registros) = 2

----------------------------------------------------------------------------
(* C6 *)

\* C6: update emits an event for a track only in a frame where that frame's
\* center_y satisfies |center_y - line_y| < zone_margin (strictly), and a
\* track none of whose samples falls inside the zone is never counted.
C6_CountOnlyInsideZone ==
    /\ [](\A id \in counted_vehicles :
            \E i \in 1..Len(Hist(id)) : InZone(Hist(id)[i]))
    /\ [][last_op' = "update" =>
            \A k \in 1..Len(returned') :
                \E i \in (Len(Hist(returned'[k][1])) + 1)
                            ..Len(HistNext(returned'[k][1])) :
                    InZone(HistNext(returned'[k][1])[i])]_vars

\* track 7 has five samples and a determined direction, its current sample
\* lies exactly on the edge of the zone, and it is not counted
C6_Witness ==
    /\ 7 \notin counted_vehicles
    /\ Len(Hist(7)) >= MinSamples
    /\ GetDirection(Hist(7)) # NoDirection
    /\ Hist(7)[Len(Hist(7))] = 2 * line_y - 2 * zone_margin

----------------------------------------------------------------------------
(* C7 *)

\* C7: a track is never counted in a frame in which its history (current
\* sample included) holds fewer than 5 samples; with n >= 5 samples the
\* direction compares the mean of the first floor(n/2) samples with the mean
\* of the remaining n - floor(n/2).
C7_MinSamplesAndFloorSplit ==
    [][last_op' = "update" =>
        \A k \in 1..Len(returned') :
            /\ Len(HistNext(returned'[k][1])) >= 5
            /\ (Len(HistNext(returned'[k][1])) = Len(Hist(returned'[k][1])) + 1)
                => /\ returned'[k][2] = "entrada" =>
                        MeanDiffCmp(HistNext(returned'[k][1]),
                                    Len(HistNext(returned'[k][1])) \div 2, 20) >= 0
                   /\ returned'[k][2] = "saida" =>
                        MeanDiffCmp(HistNext(returned'[k][1]),
                                    Len(HistNext(returned'[k][1])) \div 2, -20) <= 0
                   /\ returned'[k][2] \in Directions]_vars

\* track 7 is inside the zone with four samples that moved down by 40 px,
\* and is not counted
C7_Witness ==
    /\ Len(Hist(7)) = 4
    /\ InZone(Hist(7)[4])
    /\ MeanDiffCmp(Hist(7), 2, 20) = 1
    /\ 7 \notin counted_vehicles

----------------------------------------------------------------------------
(* C8 *)

\* C8: COUNTED is terminal: once a track is counted no later update adds a
\* record for it, changes a total or a per-color/per-type cell on its
\* account, changes its stored record, or removes it from the counted set.
C8_CountedIsTerminal ==
    [][last_op' = "update" =>
        /\ counted_vehicles \subseteq counted_vehicles'
        /\ Len(stats'.registros) >= Len(stats.registros)
        /\ SubSeq(stats'.registros, 1, Len(stats.registros)) = stats.registros
        /\ \A k \in 1..Len(NewRecords) :
              NewRecords[k].track_id \notin counted_vehicles
        /\ \A k \in 1..Len(returned') : returned'[k][1] \notin counted_vehicles
        /\ (NewRecords = <<>>) => stats' = stats]_vars

\* track 7 is counted (the only record) and was then seen again inside the
\* zone with a determined direction
C8_Witness ==
    /\ 7 \in counted_vehicles
    /\ Len(stats.registros) = 1
    /\ Len(Hist(7)) = MinSamples + 1
    /\ InZone(Hist(7)[MinSamples + 1])
    /\ GetDirection(Hist(7)) # NoDirection
    /\ returned = <<>>

----------------------------------------------------------------------------
(* C9 *)

\* C9: when a not-yet-counted track is inside the zone but its direction is
\* undetermined, the update changes nothing for the track except appending to
\* its position history (no record, no totals, not in the counted set), and
\* the track can still be counted later (C9_Witness).
C9_UndeterminedChangesNothing ==
    [][last_op' = "update" =>
        \A id \in TrackIds \ counted_vehicles :
            (/\ Len(HistNext(id)) = Len(Hist(id)) + 1
             /\ InZone(HistNext(id)[Len(HistNext(id))])
             /\ GetDirection(HistNext(id)) = NoDirection)
            => /\ id \notin counted_vehicles'
               /\ \A k \in 1..Len(returned') : returned'[k][1] # id
               /\ \A k \in 1..Len(stats'.registros) :
                     stats'.registros[k].track_id # id
               /\ SubSeq(HistNext(id), 1, Len(Hist(id))) = Hist(id)
               /\ (returned' = <<>>) =>
                     (stats' = stats /\ counted_vehicles' = counted_vehicles)]_vars

\* track 7 was inside the zone with five samples and no direction, and the
\* sixth sample got it counted
C9_Witness ==
    /\ Len(Hist(7)) = MinSamples + 1
    /\ InZone(Hist(7)[MinSamples])
    /\ GetDirection(SubSeq(Hist(7), 1, MinSamples)) = NoDirection
    /\ \E k \in 1..Len(returned) : returned[k][1] = 7

----------------------------------------------------------------------------
(* C10 *)

\* C10: each counting event appends exactly one record whose color is the
\* value the colors argument maps the track id to ('indefinido' if absent),
\* whose vehicle_type is the box's class_name ('car' if absent) and whose
\* timestamp is the call's timestamp; it increments exactly one of
\* total_entrada / total_saida and exactly the [color][direction] and
\* [type][direction] cells by 1, and changes no other counter.
C10_RecordFromArguments ==
    [][last_op' = "update" =>
        /\ Len(NewRecords) = Len(returned')
        /\ \A k \in 1..Len(returned') :
              /\ NewRecords[k].track_id = returned'[k][1]
              /\ NewRecords[k].direction = returned'[k][2]
              /\ NewRecords[k].color
                    = Get(call'.colors, returned'[k][1], "indefinido")
              /\ NewRecords[k].vehicle_type \in ClassNamesOf(returned'[k][1])
              /\ NewRecords[k].timestamp = call'.timestamp
        /\ stats'.total_entrada = stats.total_entrada
              + Cardinality({k \in 1..Len(returned') : returned'[k][2] = "entrada"})
        /\ stats'.total_saida = stats.total_saida
              + Cardinality({k \in 1..Len(returned') : returned'[k][2] = "saida"})
        /\ \A d \in Directions :
              /\ \A color \in DOMAIN stats'.por_cor \cup DOMAIN stats.por_cor :
                    Cell(stats'.por_cor, color, d)
                        = Cell(stats.por_cor, color, d)
                            + CountOf(NewRecords, "color", color, d)
              /\ \A type \in DOMAIN stats'.por_tipo \cup DOMAIN stats.por_tipo :
                    Cell(stats'.por_tipo, type, d)
                        = Cell(stats.por_tipo, type, d)
                            + CountOf(NewRecords, "vehicle_type", type, d)
        /\ DOMAIN stats'.por_cor = DOMAIN stats.por_cor
              \cup {NewRecords[k].color : k \in 1..Len(NewRecords)}
        /\ DOMAIN stats'.por_tipo = DOMAIN stats.por_tipo
              \cup {NewRecords[k].vehicle_type : k \in 1..Len(NewRecords)}]_vars

\* one update call counted both tracks with an empty colors dictionary: the
\* records carry 'indefinido', and track 8's record the default type 'car'
C10_Witness ==
    /\ Len(returned) = 2
    /\ call.op = "update"
    /\ call.colors = <<>>
    /\ \E k \in 1..Len(stats.registros) : stats.registros[k].vehicle_type = "car"

----------------------------------------------------------------------------
(* C5 *)

\* C5: frame height 600 and line position 0.5 give line_y = 300 and
\* zone_margin = 30; feeding track 7 with center_y 100, 150, 200, 250, 310,
\* 330, 350 and color azul emits nothing in frames 1-4, exactly
\* (7, 'entrada') in frame 5 and nothing in frames 6-7, and ends with exactly
\* one record (azul, entrada), total_entrada = 1 and total_saida = 0.
C5_EndToEndScenario ==
    /\ line_y = 300
    /\ zone_margin = 30
    /\ scn_frame \in 1..4 =>
          (returned = <<>> /\ stats.registros = <<>> /\ counted_vehicles = {})
    /\ scn_frame = 5 => returned = << <<7, "entrada">> >>
    /\ scn_frame \in 6..7 => returned = <<>>
    /\ scn_frame = 7 =>
          /\ Len(stats.registros) = 1
          /\ stats.registros[1].track_id = 7
          /\ stats.registros[1].color = "azul"
          /\ stats.registros[1].direction = "entrada"
          /\ stats.total_entrada = 1
          /\ stats.total_saida = 0

\* the seven frames were fed and the record is there
C5_Witness ==
    /\ scn_frame = 7
    /\ Hist(7) = <<200, 300, 400, 500, 620, 660, 700>>
    /\ Len(stats.registros) = 1

----------------------------------------------------------------------------
(* C11 *)

\* C11: after any sequence of update calls every track's position history
\* holds at most 30 samples and is exactly the most recent min(n, 30)
\* center_y values supplied for that track, in arrival order; samples keep
\* being appended for tracks that are already counted.
C11_HistoryIsLast30 ==
    \A id \in TrackIds :
        LET n == Len(supplied[id])
            m == IF n < 30 THEN n ELSE 30
        IN  /\ Len(Hist(id)) <= 30
            /\ Hist(id) = [i \in 1..m |-> supplied[id][n - m + i]]

\* track 7 was counted at its 18th sample and has since been fed past the
\* cap: 32 samples supplied, 30 kept
C11_Witness ==
    /\ 7 \in counted_vehicles
    /\ Len(supplied[7]) = 32
    /\ Len(Hist(7)) = 30
    /\ Hist(7)[1] = supplied[7][3]

----------------------------------------------------------------------------
(* C12 *)

\* a box that carries a non-negative track_id
IsTracked(box) == "track_id" \in DOMAIN box /\ box.track_id >= 0

\* the doubled centres a list of boxes carries for a track
RECURSIVE CentresOf(_, _)
CentresOf(boxes, id) ==
    IF boxes = <<>> THEN <<>>
    ELSE (IF Head(boxes).track_id = id
          THEN <<Head(boxes).bbox[2] + Head(boxes).bbox[4]>> ELSE <<>>)
         \o CentresOf(Tail(boxes), id)

\* C12: update ignores every box whose track_id is negative or missing: such
\* a box changes no position history, no counted set, no stats, and never
\* appears in the returned events.  (A call leaves the counter as the same
\* call without those boxes leaves it; a call that holds only such boxes
\* leaves it unchanged.  The boxes without identity carry the class names
\* 'car' and 'bus' and the colors argument maps -1 to 'preto': none of them
\* reaches the stats.)
C12_UntrackedBoxesIgnored ==
    [][last_op' = "update" =>
        LET kept == SelectSeq(frame', IsTracked)
        IN  /\ DOMAIN position_history' =
                    DOMAIN position_history
                        \cup {kept[i].track_id : i \in 1..Len(kept)}
            /\ \A id \in DOMAIN position_history' :
                    HistNext(id) = Hist(id) \o CentresOf(kept, id)
            /\ \A k \in 1..Len(returned') :
                    /\ returned'[k][1] >= 0
                    /\ \E i \in 1..Len(kept) : kept[i].track_id = returned'[k][1]
            /\ \A k \in 1..Len(stats'.registros) : stats'.registros[k].track_id >= 0
            /\ \A id \in counted_vehicles' : id >= 0
            /\ \A color \in DOMAIN stats'.por_cor : color # "preto"
            /\ \A type \in DOMAIN stats'.por_tipo : type \notin {"car", "bus"}
            /\ (kept = <<>>) =>
                    /\ position_history' = position_history
                    /\ counted_vehicles' = counted_vehicles
                    /\ stats' = stats
                    /\ returned' = <<>>
            /\ \E args \in UntrackedCalls :
                  \E c \in {UpdateLoop([counted_vehicles |-> counted_vehicles,
                                        position_history |-> position_history,
                                        stats |-> stats,
                                        newly_counted |-> <<>>],
                                       kept, args.colors, args.timestamp)} :
                    /\ position_history' = c.position_history
                    /\ counted_vehicles' = c.counted_vehicles
                    /\ stats' = c.stats
                    /\ returned' = c.newly_counted]_vars

\* the latest call held a box with track_id -1 ahead of track 7's box, and
\* counted track 7
C12_Witness ==
    /\ Len(frame) = 2
    /\ ~ IsTracked(frame[1])
    /\ returned = << <<7, "entrada">> >>
    /\ DOMAIN position_history = {7}

----------------------------------------------------------------------------
(* C13 *)

\* C13: the value returned by get_stats is an immutable snapshot: after it is
\* returned, later update calls on the counter do not change any field of
\* that returned value (the nested by_color and by_type entrada/saida
\* numbers included), and writing to the returned value does not change the
\* counter's state.
C13_SnapshotIsImmutable ==
    [][/\ (last_op' = "update" /\ snapshot # <<>>) => snapshot' = snapshot
       /\ last_op' = "write" =>
            UNCHANGED <<counted_vehicles, position_history, stats>>]_vars

\* the first half of C13 alone: updates leave the returned value as it was
C13_UpdatesLeaveSnapshot ==
    [][(last_op' = "update" /\ snapshot # <<>>) => snapshot' = snapshot]_vars

\* the second half of C13 alone: writes to the returned value leave the
\* counter as it was
C13_WritesLeaveCounter ==
    [][last_op' = "write" =>
            UNCHANGED <<counted_vehicles, position_history, stats>>]_vars

\* what holds of the returned dict: an update changes none of its top-level
\* numbers and adds no key to its por_cor / por_tipo, and a write to a
\* top-level entry leaves the counter alone
C13_TopLevelIsCopied ==
    /\ [][(last_op' = "update" /\ snapshot # <<>>) =>
            /\ snapshot'.total_entrada = snapshot.total_entrada
            /\ snapshot'.total_saida = snapshot.total_saida
            /\ snapshot'.total_geral = snapshot.total_geral
            /\ snapshot'.registros = snapshot.registros
            /\ DOMAIN snapshot'.por_cor = DOMAIN snapshot.por_cor
            /\ DOMAIN snapshot'.por_tipo = DOMAIN snapshot.por_tipo]_vars
    /\ [][(last_op' = "write" /\ snapshot'.por_cor = snapshot.por_cor) =>
            UNCHANGED <<counted_vehicles, position_history, stats>>]_vars

----------------------------------------------------------------------------
(* C14 *)

\* C14: after reset(), every subsequent sequence of update calls produces the
\* same emitted events and the same get_stats / get_color_distribution
\* results as the same sequence applied to a newly constructed counter with
\* the same frame_height and line_position (counted set, histories and stats
\* are all back to construction-time values).
C14_ResetEqualsNewCounter ==
    reset_after >= 0 =>
        /\ emitted = fresh_emitted
        /\ returned = fresh.newly_counted
        /\ get_stats_of(stats) = get_stats_of(fresh.stats)
        /\ get_color_distribution(stats) = get_color_distribution(fresh.stats)
        /\ counted_vehicles = fresh.counted_vehicles
        /\ position_history = fresh.position_history
        /\ stats.registros = fresh.stats.registros
        /\ last_op = "reset" =>
              /\ counted_vehicles = {}
              /\ position_history = <<>>
              /\ stats = CountingStats
              /\ <<frame_height, line_y, zone_margin>> = <<600, 300, 30>>

\* the counter was reset while it held two records, and both tracks were
\* counted again afterwards
C14_Witness ==
    /\ reset_after = 2
    /\ Len(emitted) = 2
    /\ get_stats.total_geral = 2
    /\ last_op = "update"

----------------------------------------------------------------------------
(* C15 *)

\* C15: constructing a VehicleCounter with a non-positive frame height or an
\* out-of-range line position is rejected with an error at construction; no
\* counter instance with such parameters ever exists and the values are not
\* silently clamped or accepted.
C15_BadArgumentsRejected ==
    /\ ctor = "constructed" =>
          /\ ctor_args.frame_height > 0
          /\ ctor_args.line_position \in 0..100
    /\ (ctor_args.frame_height <= 0 \/ ctor_args.line_position \notin 0..100)
          => ctor \in {"pending", "rejected"}

----------------------------------------------------------------------------
(* C16 *)

\* round(num / 100): the nearest integer, a tie going to the even one
RoundPercent(num) ==
    IF num % 100 > 50 \/ (num % 100 = 50 /\ (num \div 100) % 2 = 1)
    THEN num \div 100 + 1 ELSE num \div 100

\* C16: for every frame height and line position line_y equals
\* round(frame_height * line_position) and zone_margin equals
\* round(frame_height * 0.05): the nearest integer, not the truncation toward
\* zero (frame height 30 gives zone_margin round(1.5), frame height 590 and
\* position 0.5 gives line_y 295).  Stated for a positive height and a
\* position in [0, 1].
C16_DerivedValuesRounded ==
    (/\ ctor = "constructed"
     /\ ctor_args.frame_height > 0
     /\ ctor_args.line_position \in 0..100)
    => /\ line_y = RoundPercent(ctor_args.frame_height * ctor_args.line_position)
       /\ zone_margin = RoundPercent(ctor_args.frame_height * 5)

\* what the code computes instead: the products truncated, one less where
\* the double product of an integer-valued height * position falls short
C16_DerivedValuesTruncated ==
    (/\ ctor = "constructed"
     /\ ctor_args.frame_height > 0
     /\ ctor_args.line_position \in 0..100)
    => /\ line_y \in {(ctor_args.frame_height * ctor_args.line_position) \div 100,
                      (ctor_args.frame_height * ctor_args.line_position) \div 100 - 1}
       /\ zone_margin = (ctor_args.frame_height * 5) \div 100

----------------------------------------------------------------------------
(* C17 *)

\* the window of a track, empty when the classifier has not seen it
Window(id) == IF id \in DOMAIN color_history THEN color_history[id] ELSE <<>>

\* how often a label occurs in a sequence
Times(seq, label) == Cardinality({i \in 1..Len(seq) : seq[i] = label})

\* the last k raw classifications of a track (all of them when fewer)
LastFed(id, k) ==
    LET n == Len(color_fed[id])
        m == IF n < k THEN n ELSE k
    IN  [i \in 1..m |-> color_fed[id][n - m + i]]

\* C17: classify_with_smoothing always returns a label that occurs in the
\* track's current window with maximal frequency; after the same raw
\* classification has been fed 10 times in a row the result is that label
\* regardless of what was fed before, and after 6 azul followed by 4
\* vermelho the result is azul.
C17_SmoothingReturnsMode ==
    color_returned # NoCall =>
        LET id == color_returned.track_id
            result == color_returned.most_common
        IN  /\ \E i \in 1..Len(Window(id)) : Window(id)[i] = result
            /\ \A i \in 1..Len(Window(id)) :
                  Times(Window(id), Window(id)[i]) <= Times(Window(id), result)
            /\ \A label \in {"azul", "vermelho", "indefinido"} :
                  LastFed(id, 10) = [i \in 1..10 |-> label] => result = label
            /\ LastFed(id, 10) = [i \in 1..10 |-> IF i <= 6 THEN "azul"
                                                             ELSE "vermelho"]
                  => result = "azul"

\* track 7 was classified vermelho twice, then azul six times, then vermelho
\* four times: vermelho is the latest label and as frequent as azul overall
C17_Witness ==
    /\ color_fed[7] = [i \in 1..12 |-> IF i \in 3..8 THEN "azul" ELSE "vermelho"]
    /\ color_returned # NoCall
    /\ color_returned.track_id = 7
    /\ color_returned.most_common = "azul"

----------------------------------------------------------------------------
(* C18 *)

\* C18: after any sequence of classify_with_smoothing calls each track's
\* color window holds at most 10 labels and is exactly the last min(n, 10)
\* raw classifications of that track in arrival order; a call for one track
\* id leaves the window of every other track id unchanged.
C18_WindowIsLast10 ==
    /\ [](\A id \in TrackIds :
            /\ Len(Window(id)) <= 10
            /\ Window(id) = LastFed(id, 10)
            /\ id \in DOMAIN color_history <=> color_fed[id] # <<>>)
    /\ [][color_returned' # NoCall =>
            \A id \in (DOMAIN color_history \cup DOMAIN color_history')
                        \ {color_returned'.track_id} :
                /\ id \in DOMAIN color_history
                /\ id \in DOMAIN color_history'
                /\ color_history'[id] = color_history[id]]_vars

\* track 7 was classified 12 times, the first label differing from the
\* eleventh, and track 8 has its own window
C18_Witness ==
    /\ Len(color_fed[7]) = 12
    /\ color_fed[7][1] # color_fed[7][11]
    /\ Len(Window(7)) = 10
    /\ Len(Window(8)) = 1
    /\ Window(8)[1] # Window(7)[10]

----------------------------------------------------------------------------
(* C19 *)

\* the box of a call, clipped to its frame, is empty: its width
\* min(width, x2) - max(0, x1) or its height is <= 0 (in half pixels)
ClippedEmpty(c) ==
    \/ Min(2 * c.frame.width, c.bbox[3]) <= Max(0, c.bbox[1])
    \/ Min(2 * c.frame.height, c.bbox[4]) <= Max(0, c.bbox[2])

\* C19: classify never raises for a malformed bounding box: for every bbox
\* whose clipped width or height is <= 0 (inverted corners, zero area,
\* entirely outside the frame, or an empty frame) it returns 'indefinido',
\* and classify_with_smoothing then still appends that label to the window
\* and returns normally.
C19_MalformedBoxIsIndefinido ==
    [][(color_call' # NoCall /\ color_history' # color_history
            /\ ClippedEmpty(color_call')) =>
        /\ color_fed'[7] = Append(color_fed[7], "indefinido")
        /\ color_history'[7] = Append(Window(7), "indefinido")
        /\ color_returned'.track_id = 7
        /\ \E i \in 1..Len(color_history'[7]) :
              color_history'[7][i] = color_returned'.most_common
        /\ color_returned'.most_common
              \in {COLOR_RANGES[k][1] : k \in 1..Len(COLOR_RANGES)}
                    \cup {"indefinido"}]_vars

\* after two azul classifications a box right of the frame was classified:
\* 'indefinido' is in the window and azul is returned
C19_Witness ==
    /\ color_call # NoCall
    /\ color_call.bbox = <<1400, 400, 1500, 520>>
    /\ Window(7) = <<"azul", "azul", "indefinido">>
    /\ color_returned.most_common = "azul"

----------------------------------------------------------------------------
(* C20 *)

\* every speed a list of the analytics holds
StoredSpeeds ==
    {speed_history[i] : i \in 1..Len(speed_history)}
    \cup UNION {{vehicles[id].speed_estimates[i] :
                    i \in 1..Len(vehicles[id].speed_estimates)} :
                id \in DOMAIN vehicles}

\* the samples a track had, none for an unknown track
PositionsOf(vs, id) == IF id \in DOMAIN vs THEN vs[id].positions ELSE <<>>

EstimatesOf(vs, id) ==
    IF id \in DOMAIN vs THEN vs[id].speed_estimates ELSE <<>>

\* the last two samples are more than 200 km/h apart: with 20 pixels in a
\* meter, doubled coordinates and hundredths of a second the speed is
\* 9 * distance2 / dt, compared here in squares
ImpliesOver200(pos1, pos2) ==
    /\ pos2[3] > pos1[3]
    /\ 81 * ((pos2[1] - pos1[1]) * (pos2[1] - pos1[1])
             + (pos2[2] - pos1[2]) * (pos2[2] - pos1[2]))
        > 40000 * (pos2[3] - pos1[3]) * (pos2[3] - pos1[3])

C20_StoredAtMost200 ==
    \A speed \in StoredSpeeds : speed.num <= 200 * speed.den

C20_CallStep ==
    analytics_call' # NoCall /\ vehicles' # vehicles =>
        LET id == analytics_call'.track_id
            before == PositionsOf(vehicles, id)
            now == PositionsOf(vehicles', id)
        IN  /\ (before # <<>>
                /\ analytics_call'.timestamp <= before[Len(before)][3])
               => /\ EstimatesOf(vehicles', id) = EstimatesOf(vehicles, id)
                  /\ speed_history' = speed_history
            /\ (before # <<>>
                /\ ImpliesOver200(before[Len(before)], now[Len(now)]))
               => /\ EstimatesOf(vehicles', id)
                        = Append(EstimatesOf(vehicles, id), Kmh(200))
                  /\ speed_history' = Append(speed_history, Kmh(200))

\* C20: every speed stored in a vehicle's speed_estimates or in the global
\* speed_history is at most 200 km/h; a displacement that implies more than
\* 200 km/h (500 km/h among them) is stored as exactly 200 in both lists;
\* and an update_vehicle call whose timestamp is not greater than the
\* track's previous sample's appends nothing to either list.
C20_SpeedsClamped == [](C20_StoredAtMost200) /\ [][C20_CallStep]_vars

\* track 7 was seen at (100,100) at 0.00 s and at (250,300) at 0.09 s, which
\* is 500 km/h and stored as 200, then again at 0.09 s: nothing was appended
C20_Witness ==
    /\ 7 \in DOMAIN vehicles
    /\ vehicles[7].positions
        = <<<<200, 200, 0>>, <<500, 600, 9>>, <<206, 208, 9>>>>
    /\ vehicles[7].speed_estimates = <<Kmh(200)>>
    /\ speed_history = <<Kmh(200)>>
    /\ analytics_call # NoCall
    /\ analytics_call.track_id = 7

----------------------------------------------------------------------------
(* Reading the analytics in the properties *)

\* the step is a vehicle_exited call; its arguments are in analytics_call'
IsExit == analytics_call'.op = "vehicle_exited" /\ exit_log' # exit_log

\* the step is an update_vehicle call; its arguments are in analytics_call'
IsSighting ==
    /\ analytics_call'.op = "update_vehicle"
    /\ Len(PositionsOf(vehicles', analytics_call'.track_id))
        = Len(PositionsOf(vehicles, analytics_call'.track_id)) + 1

\* the alerts the step appended, when it removed none
NewAlerts == SubSeq(alerts', Len(alerts) + 1, Len(alerts'))

\* how many of the appended alerts are of a type
NewOfType(type) ==
    Cardinality({i \in 1..Len(NewAlerts) : NewAlerts[i].type = type})

----------------------------------------------------------------------------
(* C21 *)

C21_ExitStep ==
    IsExit /\ analytics_call'.track_id \in DOMAIN vehicles =>
        LET id == analytics_call'.track_id
            dwell == analytics_call'.timestamp - vehicles[id].entry_time
        IN  /\ dwell_times' = Append(dwell_times, dwell)
            /\ Len(alerts') >= Len(alerts)
            /\ (\E i \in 1..Len(NewAlerts) :
                    /\ NewAlerts[i].type = "PERMANENCIA_LONGA"
                    /\ NewAlerts[i].severity = "warning"
                    /\ NewAlerts[i].track_id = id)
               <=> dwell > 6000
            /\ \A i \in 1..Len(NewAlerts) :
                    NewAlerts[i].type = "PERMANENCIA_LONGA"
                        => NewAlerts[i].severity = "warning"

\* C21: vehicle_exited for a known track appends a long-dwell alert of
\* severity 'warning' if and only if timestamp - entry_time is greater than
\* 60 seconds, and the dwell time it appends to dwell_times is
\* timestamp - entry_time.
C21_LongDwellAbove60 == [][C21_ExitStep]_vars

\* track 7 entered at 0 s and was exited at 60 s, without an alert, and
\* again at 61 s, with one
C21_Witness ==
    /\ 7 \in DOMAIN vehicles
    /\ vehicles[7].entry_time = 0
    /\ dwell_times = <<6000, 6100>>
    /\ alerts = <<Alert("PERMANENCIA_LONGA", 7, "warning")>>

----------------------------------------------------------------------------
(* C22 *)

C22_ExitStep ==
    IsExit =>
        LET id == analytics_call'.track_id
        IN  /\ Len(alerts') >= Len(alerts)
            /\ SubSeq(alerts', 1, Len(alerts)) = alerts
            /\ NewOfType("PERMANENCIA_LONGA") <= 1
            /\ NewOfType("ALTA_VELOCIDADE") <= 1
            /\ Len(NewAlerts)
                = NewOfType("PERMANENCIA_LONGA") + NewOfType("ALTA_VELOCIDADE")
            /\ id \in DOMAIN vehicles =>
                ((\E i \in 1..Len(NewAlerts) :
                    /\ NewAlerts[i].type = "ALTA_VELOCIDADE"
                    /\ NewAlerts[i].severity = "danger"
                    /\ NewAlerts[i].track_id = id)
                 <=> /\ vehicles[id].speed_estimates # <<>>
                     /\ Faster(Mean(vehicles[id].speed_estimates), Kmh(80)))

\* C22: one vehicle_exited call appends at most one alert of each kind; the
\* high-speed alert of severity 'danger' is appended if and only if the
\* vehicle has a speed sample and the mean of its samples is greater than
\* 80 km/h, whether or not the long-dwell alert is appended; and the alerts
\* already in the list stay as they are.
C22_OneAlertOfEachKind == [][C22_ExitStep]_vars

\* track 7 moved at 81 and then at 79.2 km/h, a mean of 80.1; exited at
\* 0 s it got the high-speed alert alone, exited at 61 s it got both
C22_Witness ==
    /\ 7 \in DOMAIN vehicles
    /\ Len(vehicles[7].speed_estimates) = 2
    /\ Faster(Kmh(80), vehicles[7].speed_estimates[2])
    /\ alerts = <<Alert("ALTA_VELOCIDADE", 7, "danger"),
                  Alert("PERMANENCIA_LONGA", 7, "warning"),
                  Alert("ALTA_VELOCIDADE", 7, "danger")>>

----------------------------------------------------------------------------
(* C23 *)

C23_ExitStep ==
    (/\ IsExit
     /\ analytics_call'.track_id \in DOMAIN vehicles
     /\ vehicles[analytics_call'.track_id].counted)
    => UNCHANGED <<vehicles, dwell_times, vehicles_in_scene, alerts>>

\* C23: a vehicle is finalized once: a second or later vehicle_exited for
\* the same track records no dwell time, does not decrement
\* vehicles_in_scene, appends no alert and leaves exit_time and direction.
C23_FinalizedOnce == [][C23_ExitStep]_vars

----------------------------------------------------------------------------
(* C24 *)

C24_ExitStep ==
    IsExit /\ analytics_call'.track_id \notin DOMAIN vehicles =>
        UNCHANGED <<vehicles, total_vehicles, vehicles_in_scene,
                    speed_history, dwell_times, alerts>>

\* C24: vehicle_exited with a track id that was never passed to
\* update_vehicle leaves the engine as it was: no vehicle is created,
\* dwell_times, vehicles_in_scene and total_vehicles keep their values and
\* no alert is appended.
C24_UnknownExitIgnored == [][C24_ExitStep]_vars

\* vehicle_exited was called for track 8, which the engine has not seen,
\* while it holds track 7
C24_Witness ==
    /\ analytics_call # NoCall
    /\ analytics_call.op = "vehicle_exited"
    /\ analytics_call.track_id = 8
    /\ DOMAIN vehicles = {7}
    /\ total_vehicles = 1
    /\ vehicles_in_scene = 1
    /\ dwell_times = <<>>

----------------------------------------------------------------------------
(* C25 *)

C25_TotalIsNumberOfTracks == total_vehicles = Cardinality(DOMAIN vehicles)

C25_SightingStep ==
    IsSighting =>
        LET id == analytics_call'.track_id
        IN  IF id \notin DOMAIN vehicles
            THEN /\ DOMAIN vehicles' = DOMAIN vehicles \cup {id}
                 /\ vehicles'[id].entry_time = analytics_call'.timestamp
                 /\ total_vehicles' = total_vehicles + 1
                 /\ vehicles_in_scene' = vehicles_in_scene + 1
            ELSE /\ DOMAIN vehicles' = DOMAIN vehicles
                 /\ vehicles'[id].entry_time = vehicles[id].entry_time
                 /\ total_vehicles' = total_vehicles
                 /\ vehicles_in_scene' = vehicles_in_scene

\* C25: total_vehicles is the number of track ids in the vehicles map in
\* every state, resets included; the first update_vehicle for an id creates
\* its record with entry_time the call's timestamp and adds 1 to
\* total_vehicles and to vehicles_in_scene, and a later update_vehicle for
\* the id creates no record, keeps entry_time and adds to neither counter.
C25_TotalCountsTracks ==
    [](C25_TotalIsNumberOfTracks) /\ [][C25_SightingStep]_vars

\* both tracks are held, track 7 entered at 1 s and was seen three times
C25_Witness ==
    /\ DOMAIN vehicles = {7, 8}
    /\ total_vehicles = 2
    /\ vehicles[7].entry_time = 100
    /\ Len(vehicles[7].positions) = 3
    /\ vehicles[8].entry_time = 0

----------------------------------------------------------------------------
(* C30 *)

\* all the doubled centres of a log lie within 2 * 20 of each other
WithinTwenty(log) ==
    \A i, j \in 1..Len(log) : log[i] - log[j] <= 40

\* C30: a track whose center_y samples, all that were ever supplied, lie
\* within 20 px of each other has not been counted and no update call has
\* returned an event for it, however long it stays inside the zone.
C30_HoveringNeverCounted ==
    \A id \in DOMAIN supplied :
        WithinTwenty(supplied[id]) =>
            /\ id \notin counted_vehicles
            /\ \A i \in 1..Len(emitted) : emitted[i][1] # id
            /\ \A i \in 1..Len(stats.registros) :
                    stats.registros[i].track_id # id

\* track 7 was three frames at 290 and three at 310, a difference of the
\* means of exactly 20 inside the zone, and is not counted
C30_Witness ==
    /\ supplied[7] = <<580, 580, 580, 620, 620, 620>>
    /\ position_history[7] = supplied[7]
    /\ 7 \notin counted_vehicles
    /\ emitted = <<>>

----------------------------------------------------------------------------
(* C26 *)

\* the step is a read operation
IsRead == read_result'.tick # read_result.tick

C26_ReadStep ==
    IsRead =>
        /\ UNCHANGED <<frame_height, line_y, zone_margin, counted_vehicles,
                       position_history, stats>>
        /\ UNCHANGED <<vehicles, total_vehicles, vehicles_in_scene,
                       speed_history, dwell_times, alerts>>
        /\ UNCHANGED color_history
        /\ (/\ read_result'.op = "get_vehicle_stats"
            /\ read_result'.args[1] \notin DOMAIN vehicles)
           => /\ read_result'.value = "None"
              /\ read_result'.args[1] \notin DOMAIN vehicles'

\* C26: every read operation (get_stats and get_color_distribution of the
\* counter; get_summary, get_average_speed, get_average_dwell_time,
\* get_current_flow_rate, get_traffic_density, get_vehicle_stats and
\* get_recent_alerts of the engine) leaves the state of its component as it
\* was, so that what later operations do does not depend on the reads made;
\* get_vehicle_stats for an unknown id returns None and creates no entry.
C26_ReadsChangeNothing == [][C26_ReadStep]_vars

\* get_vehicle_stats(9) returned None while the engine holds tracks 7 and
\* 8 with an alert and the counter has counted track 7
C26_Witness ==
    /\ read_result.op = "get_vehicle_stats"
    /\ read_result.args = <<9>>
    /\ read_result.value = "None"
    /\ DOMAIN vehicles = {7, 8}
    /\ alerts # <<>>
    /\ counted_vehicles = {7}

----------------------------------------------------------------------------
(* C27 *)

\* the fields of the counter, the color classifier and the analytics
ComponentState ==
    <<frame_height, line_y, zone_margin, counted_vehicles, position_history,
      stats, color_history, vehicle_colors, vehicles, total_vehicles,
      vehicles_in_scene, speed_history, dwell_times, alerts>>

C27_IdleStep ==
    idling /\ is_paused =>
        /\ frame_count' = frame_count
        /\ cap_pos' = cap_pos
        /\ processed' = processed
        /\ ComponentState' = ComponentState

\* the frames whose update was completed are 1, 2, 3, ... in this order and
\* the capture has delivered as many frames as frame_count says
C27_FramesInOrder ==
    /\ \A i \in 1..Len(processed) : processed[i] = i
    /\ Len(processed) \in {frame_count, frame_count - 1}
    /\ worker_pc \in {"while", "pause_check", "read", "classify", "count"}
        => cap_pos = frame_count

----------------------------------------------------------------------------
(* C28 *)

\* the worker is inside an iteration of the loop
InLoop == worker_pc \in {"pause_check", "read", "classify", "count"}

\* C28: stopping is cooperative: the capture object is neither released nor
\* set to None while the worker is inside the loop, and no error state is
\* reached.
C28_StopIsCooperative ==
    /\ InLoop => cap = "open"
    /\ ~ error_shown

\* the second half alone: the except clause is never entered
C28_NoErrorState == ~ error_shown

\* the first half of the claim: a frame that was read has its update
\* completed whatever the buttons do meanwhile
C28_FrameStep ==
    /\ worker_pc = "classify" => worker_pc' \in {"classify", "count"}
    /\ worker_pc = "count" =>
          \/ worker_pc' = "count" /\ processed' = processed
          \/ worker_pc' = "while" /\ processed' = Append(processed, frame_count)

C28_FrameRunsToItsEnd == [][C28_FrameStep]_vars

----------------------------------------------------------------------------
(* C29 *)

\* the valid track ids of the boxes of the frames whose update was completed
TracksProcessed ==
    UNION {{Tracked(processed[i])[j].track_id :
                j \in 1..Len(Tracked(processed[i]))} :
           i \in 1..Len(processed)}
    \ {-1}

\* C29: at every frame boundary, each tracked box of the frames processed
\* so far was passed to update_vehicle of the analytics, and each event
\* counter.update returned was followed by vehicle_exited for its track.
C29_FrameFeedsAnalytics ==
    worker_pc = "while" =>
        /\ \A id \in TracksProcessed : id \in DOMAIN vehicles
        /\ \A i \in 1..Len(emitted) :
              /\ emitted[i][1] \in DOMAIN vehicles
              /\ vehicles[emitted[i][1]].counted

----------------------------------------------------------------------------
(* C31 *)

\* the doubled center_y of the box update was just handed for track 7
CurrentOf7 == supplied'[7][Len(supplied'[7])]

\* update was just called with one more box of track 7, not counted before
EligibleStep ==
    /\ last_op' = "update"
    /\ Len(supplied'[7]) = Len(supplied[7]) + 1
    /\ 7 \notin counted_vehicles

\* C31 as stated: with frame height 600 and line position 0.5 the zone is
\* [270, 330): a track whose current center_y is 270 is counted in that frame
\* when its direction is determined, and one whose center_y is 330 is not.
C31_ZoneHalfOpen ==
    [][EligibleStep =>
        /\ (CurrentOf7 = 540 /\ GetDirection(HistNext(7)) # NoDirection)
              => 7 \in counted_vehicles'
        /\ CurrentOf7 = 660 => 7 \notin counted_vehicles']_vars

\* C31, amended: with frame height 600 and line position 0.5 the zone is the
\* open interval (270, 330): a track whose current center_y is 270 or 330 is
\* not counted in that frame, and one whose center_y lies strictly between
\* them (270.5 and 329.5 included) is counted as soon as its direction is
\* determined.
C31_ZoneOpen ==
    [][EligibleStep =>
        /\ CurrentOf7 \in {540, 660} => 7 \notin counted_vehicles'
        /\ (CurrentOf7 > 540 /\ CurrentOf7 < 660
              /\ GetDirection(HistNext(7)) # NoDirection)
              => 7 \in counted_vehicles']_vars

\* track 7 was seen at 330 and is now at 270 with five samples and a
\* determined direction, and is not counted
C31_Witness ==
    /\ line_y = 300 /\ zone_margin = 30
    /\ 7 \notin counted_vehicles
    /\ Len(supplied[7]) >= MinSamples
    /\ supplied[7] = Hist(7)
    /\ GetDirection(Hist(7)) # NoDirection
    /\ supplied[7][Len(supplied[7])] = 540
    /\ \E i \in 1..Len(supplied[7]) : supplied[7][i] = 660

----------------------------------------------------------------------------
(* C32 *)

RECURSIVE EstimatesCount(_, _)
\* the sum of the lengths of the speed_estimates of the vehicles `ids`
EstimatesCount(vs, ids) ==
    IF ids = {} THEN 0
    ELSE LET id == CHOOSE x \in ids : TRUE
         IN  Len(vs[id].speed_estimates) + EstimatesCount(vs, ids \ {id})

\* speed_history is as long as all the speed_estimates together
SpeedListsAligned ==
    Len(speed_history) = EstimatesCount(vehicles, DOMAIN vehicles)

\* the step is an update_vehicle call on a track that had a sample, with a
\* timestamp greater than that sample's
LaterSighting ==
    /\ IsSighting
    /\ PositionsOf(vehicles, analytics_call'.track_id) # <<>>
    /\ analytics_call'.timestamp
        > PositionsOf(vehicles, analytics_call'.track_id)
            [Len(PositionsOf(vehicles, analytics_call'.track_id))][3]

\* the call's center differs from the track's previous sample's
MovedSighting ==
    LET before == PositionsOf(vehicles, analytics_call'.track_id)
        now == PositionsOf(vehicles', analytics_call'.track_id)
    IN  \/ now[Len(now)][1] # before[Len(before)][1]
        \/ now[Len(now)][2] # before[Len(before)][2]

\* the call appended one and the same speed, between 0 and 200 km/h and
\* above `floor` (-1: any; 0: positive), to the track's speed_estimates and
\* to speed_history
OneSpeedAppended(floor) ==
    LET id == analytics_call'.track_id
    IN  /\ Len(speed_history') = Len(speed_history) + 1
        /\ SubSeq(speed_history', 1, Len(speed_history)) = speed_history
        /\ EstimatesOf(vehicles', id)
            = Append(EstimatesOf(vehicles, id),
                     speed_history'[Len(speed_history')])
        /\ speed_history'[Len(speed_history')].num
            <= SpeedCeiling * speed_history'[Len(speed_history')].den
        /\ speed_history'[Len(speed_history')].num >= 0
        /\ floor >= 0 => speed_history'[Len(speed_history')].num > floor

\* C32 as stated: an update_vehicle call on a track with a previous sample
\* and a greater timestamp appends exactly one speed in [0, 200] (0 when the
\* vehicle did not move) to both the track's speed_estimates and
\* speed_history, and speed_history is always as long as all the
\* speed_estimates together.
C32_OneSpeedPerSighting ==
    /\ [](SpeedListsAligned)
    /\ [][LaterSighting => OneSpeedAppended(-1)]_vars

\* C32, amended: such a call appends exactly one speed, positive and at most
\* 200, to both lists when the center moved since the previous sample, and
\* appends nothing to either list when the center did not move;
\* speed_history is always as long as all the speed_estimates together.
C32_OneSpeedWhenMoved ==
    /\ [](SpeedListsAligned)
    /\ [][LaterSighting =>
            IF MovedSighting THEN OneSpeedAppended(0)
            ELSE /\ speed_history' = speed_history
                 /\ EstimatesOf(vehicles', analytics_call'.track_id)
                     = EstimatesOf(vehicles, analytics_call'.track_id)]_vars

\* track 7 moved from (100,100) at 0.00 s to (101.5,102) at 0.09 s, which
\* stored one speed, and track 8 stayed at (100,100) from 0.00 s to 0.09 s,
\* which stored none
C32_Witness ==
    /\ DOMAIN vehicles = {7, 8}
    /\ vehicles[7].positions = <<<<200, 200, 0>>, <<206, 208, 9>>>>
    /\ Len(vehicles[7].speed_estimates) = 1
    /\ vehicles[8].positions = <<<<200, 200, 0>>, <<200, 200, 9>>>>
    /\ vehicles[8].speed_estimates = <<>>
    /\ Len(speed_history) = 1

----------------------------------------------------------------------------
(* C33 *)

\* the labels that occur most often among the last ten fed to a track
Tied(id) ==
    {label \in {LastFed(id, 10)[i] : i \in 1..Len(LastFed(id, 10))} :
        \A i \in 1..Len(LastFed(id, 10)) :
            Times(LastFed(id, 10), LastFed(id, 10)[i])
                <= Times(LastFed(id, 10), label)}

\* C33 as stated: when labels tie for the highest frequency in a track's
\* window, classify_with_smoothing returns the label whose count reaches the
\* maximum first when the window is scanned in insertion order (vermelho for
\* azul, vermelho, vermelho, azul).
C33_TieGoesToFirstToReach ==
    (color_returned # NoCall /\ Cardinality(Tied(color_returned.track_id)) >= 2)
        => /\ color_returned.most_common
                = MostCommonFirstToReach(LastFed(color_returned.track_id, 10))
           /\ color_fed[color_returned.track_id]
                = <<"azul", "vermelho", "vermelho", "azul">>
                => color_returned.most_common = "vermelho"

\* C33, amended: when labels tie for the highest frequency in a track's
\* window, classify_with_smoothing returns the tied label that occurs first
\* in the window (azul for azul, vermelho, vermelho, azul).
C33_TieGoesToFirstInWindow ==
    (color_returned # NoCall /\ Cardinality(Tied(color_returned.track_id)) >= 2)
        => /\ color_returned.most_common \in Tied(color_returned.track_id)
           /\ \A i \in 1..Len(LastFed(color_returned.track_id, 10)) :
                LastFed(color_returned.track_id, 10)[i]
                    \in Tied(color_returned.track_id)
                => \E j \in 1..i :
                     LastFed(color_returned.track_id, 10)[j]
                        = color_returned.most_common
           /\ color_fed[color_returned.track_id]
                = <<"azul", "vermelho", "vermelho", "azul">>
                => color_returned.most_common = "azul"

\* track 7 was classified azul, vermelho, vermelho, azul and the last call
\* returned azul
C33_Witness ==
    /\ color_fed[7] = <<"azul", "vermelho", "vermelho", "azul">>
    /\ Window(7) = color_fed[7]
    /\ color_returned # NoCall
    /\ color_returned.track_id = 7
    /\ color_returned.most_common = "azul"

----------------------------------------------------------------------------
(* C34 *)

\* C34: update_vehicle called with a negative track id creates no vehicle
\* record, leaves total_vehicles and vehicles_in_scene as they were and
\* appends no position or speed sample.
C34_NegativeIdIgnored ==
    /\ [](\A id \in DOMAIN vehicles : id >= 0)
    /\ [][(analytics_call'.op = "update_vehicle"
            /\ analytics_call'.track_id < 0)
            => /\ vehicles' = vehicles
               /\ total_vehicles' = total_vehicles
               /\ vehicles_in_scene' = vehicles_in_scene
               /\ speed_history' = speed_history]_vars

----------------------------------------------------------------------------
(* C35 *)

\* no sample of the sequence is smaller than the one before it
NonDecreasing(seq) == \A i \in 1..(Len(seq) - 1) : seq[i] <= seq[i + 1]

\* no sample of the sequence is greater than the one before it
NonIncreasing(seq) == \A i \in 1..(Len(seq) - 1) : seq[i] >= seq[i + 1]

\* the directions a track was counted with, in events and in records
CountedAs(id) ==
    {emitted[i][2] : i \in {j \in 1..Len(emitted) : emitted[j][1] = id}}
    \cup {stats.registros[i].direction :
            i \in {j \in 1..Len(stats.registros) :
                        stats.registros[j].track_id = id}}

\* C35: a track whose center_y samples never decrease over all its frames
\* is never counted as saida and one whose samples never increase is never
\* counted as entrada, also after its history has reached the 30-sample cap.
C35_DirectionFollowsMotion ==
    \A id \in TrackIds :
        /\ NonDecreasing(supplied[id]) => "saida" \notin CountedAs(id)
        /\ NonIncreasing(supplied[id]) => "entrada" \notin CountedAs(id)

\* track 7 moved down only, was still uncounted when its history reached 30
\* samples and was counted as entrada in a later frame
C35_Witness ==
    /\ Len(supplied[7]) > HistoryCap
    /\ NonDecreasing(supplied[7])
    /\ supplied[7][1] < supplied[7][Len(supplied[7])]
    /\ returned = <<<<7, "entrada">>>>
    /\ CountedAs(7) = {"entrada"}

----------------------------------------------------------------------------
(* C36 *)

RECURSIVE CellSum(_, _, _)
\* the sum of the `direction` cells of a breakdown over the keys `keys`
CellSum(d, keys, direction) ==
    IF keys = {} THEN 0
    ELSE LET key == CHOOSE k \in keys : TRUE
         IN  d[key][direction] + CellSum(d, keys \ {key}, direction)

RECURSIVE ValueSum(_, _)
\* the sum of the values of a dict of numbers over the keys `keys`
ValueSum(d, keys) ==
    IF keys = {} THEN 0
    ELSE LET key == CHOOSE k \in keys : TRUE
         IN  d[key] + ValueSum(d, keys \ {key})

\* C36: between any two calls on a VehicleCounter the entrada cells of the
\* per-color breakdown sum to total_entrada and the saida cells to
\* total_saida, the same holds for the per-type breakdown, and the values
\* returned by get_color_distribution sum to the total_geral of get_stats.
C36_BreakdownsMatchTotals ==
    /\ CellSum(stats.por_cor, DOMAIN stats.por_cor, "entrada")
        = stats.total_entrada
    /\ CellSum(stats.por_cor, DOMAIN stats.por_cor, "saida")
        = stats.total_saida
    /\ CellSum(stats.por_tipo, DOMAIN stats.por_tipo, "entrada")
        = stats.total_entrada
    /\ CellSum(stats.por_tipo, DOMAIN stats.por_tipo, "saida")
        = stats.total_saida
    /\ ValueSum(get_color_distribution(stats),
                DOMAIN get_color_distribution(stats))
        = get_stats.total_geral

\* two tracks of the same color and of different types were counted in the
\* same direction
C36_Witness ==
    /\ Len(stats.registros) = 2
    /\ stats.registros[1].color = stats.registros[2].color
    /\ stats.registros[1].direction = stats.registros[2].direction
    /\ stats.registros[1].vehicle_type # stats.registros[2].vehicle_type
    /\ get_stats.total_geral = 2

----------------------------------------------------------------------------
(* C40 *)

\* C40: each tracked box handed to the counter carries the class_name of
\* the detection it was built from, and the vehicle type recorded for a
\* counted track, and added to the per-type breakdown, is the class of that
\* track's own detection.
C40_TypeIsOwnClass ==
    /\ \A i \in 1..Len(frame) :
          frame[i].class_name = VEHICLE_CLASSES(frame[i].class_id)
    /\ \A i \in 1..Len(stats.registros) :
          stats.registros[i].vehicle_type
            = Detection(LaneOf(stats.registros[i].track_id), 1).class_name
    /\ \A type \in DOMAIN stats.por_tipo :
          stats.por_tipo[type].entrada + stats.por_tipo[type].saida
            = Cardinality({i \in 1..Len(stats.registros) :
                  Detection(LaneOf(stats.registros[i].track_id), 1).class_name
                    = type})

----------------------------------------------------------------------------
(* C39 *)

\* the handled requests that led to an alert
Dispatched == {i \in 1..Len(alert_log) : alert_log[i].dispatched}

\* any two dispatched alerts are at least 10 seconds apart
AlertsApart ==
    \A i \in Dispatched : \A j \in Dispatched :
        i < j => alert_log[j].at - alert_log[i].at >= AlertGap

\* C39 as stated: any two dispatched alerts are at least 10 seconds apart,
\* and a vehicle of the alert color counted less than 10 seconds after the
\* previous dispatched alert produces no alert at all.
C39_CountedWithinGapDropped ==
    /\ AlertsApart
    /\ \A i \in Dispatched : \A j \in 1..Len(alert_log) :
          (/\ i < j
           /\ alert_log[j].counted_at >= alert_log[i].at
           /\ alert_log[j].counted_at - alert_log[i].at < AlertGap)
            => ~ alert_log[j].dispatched

\* C39, amended: any two dispatched alerts are at least 10 seconds apart,
\* and an alert request that the UI thread runs less than 10 seconds after
\* the previous dispatched alert produces no alert then and is gone from
\* the queue; what counts is the time the request is run, not the time the
\* vehicle was counted.
C39_HandledWithinGapDropped ==
    /\ [](AlertsApart)
    /\ [][alert_log' # alert_log =>
            /\ alert_requests' = Tail(alert_requests)
            /\ alert_log' = Append(alert_log, alert_log'[Len(alert_log')])
            /\ alert_log'[Len(alert_log')].track_id
                = Head(alert_requests).track_id
            /\ \A i \in Dispatched :
                  clock - alert_log[i].at < AlertGap
                    => ~ alert_log'[Len(alert_log')].dispatched
            /\ \A k \in 1..Len(alert_requests') :
                  alert_requests'[k].track_id
                    # alert_log'[Len(alert_log')].track_id]_vars

\* an alert was dispatched and the request of a vehicle counted later was
\* run within 10 seconds of it, some time after the count, and dropped
C39_Witness ==
    /\ Len(alert_log) = 2
    /\ alert_log[1].dispatched
    /\ ~ alert_log[2].dispatched
    /\ alert_log[2].counted_at > alert_log[1].at
    /\ alert_log[2].at > alert_log[2].counted_at
    /\ alert_log[2].at < alert_log[1].at + AlertGap
    /\ alert_requests = <<>>

----------------------------------------------------------------------------
(* C37 *)

\* _stop_processing has cleared the running flag on the UI thread
StopRequested == ui_pc = "release"

\* the thread of the first start is past its while loop
LeftLoop == worker_pc \in {"finish", "except", "done"}

\* C37: once stop has been requested the processing thread eventually
\* leaves its frame loop, also when it was paused at that moment, as long
\* as the thread keeps being scheduled.
C37_StoppedWorkerLeavesLoop == StopRequested ~> LeftLoop

\* with one start only: a stop requested while the thread is paused is
\* followed by the thread leaving the loop
C37_LeavesLoopWithoutRestart ==
    (StopRequested /\ idling) ~> LeftLoop

----------------------------------------------------------------------------
(* C38 *)

\* a thread is inside the body of `while self.is_running`
InBody(pc) == pc \in {"pause_check", "read", "classify", "count"}

\* C38: for every interleaving of start, pause, stop and start again at
\* most one thread at a time is inside the frame loop, and the thread of a
\* start that was stopped takes no further frame once a later start has set
\* the running flag again.
C38_OneWorkerInLoop ==
    /\ [](~ (InBody(worker_pc) /\ InBody(worker2_pc)))
    /\ [][(worker2_pc # "none" /\ worker_pc = "read")
            => frame_count' = frame_count]_vars

====
